---- MODULE Spec2Model ----
(***************************************************************************)
(* Model of the job-search-companion automation core:                      *)
(*   - AuthFlowManager (src/lib/auth/auth-flow-manager.ts): the lexicon    *)
(*     based auth detector and the checkAndHandleAuth wait loop;           *)
(*   - AINavigator (services/aiNavigator): accessibility snapshots,        *)
(*     element mappings, findElements and act.                             *)
(* Strings that the code inspects character by character are sequences of  *)
(* one-character strings, so that toLowerCase, join and includes are       *)
(* computed rather than assumed.                                           *)
(***************************************************************************)
EXTENDS Integers, Sequences, FiniteSets, TLC

VARIABLES
    \* ---- AuthFlowManager.detectAuthRequired as a pure function ----
    detObservations,   \* the observations page.observe returned to the last call
    detResult,         \* what detectAuthRequired returned for them
    detPc,             \* "input" before the call, "returned" after it
    \* ---- AuthFlowManager.checkAndHandleAuth ----
    authPc,            \* position of the one checkAndHandleAuth call
    authRet,           \* "none" while running, "true"/"false" once returned, "threw"
    elapsed,           \* Date.now() - startTime of waitForAuthentication, in ms
    saveSessionCalls,  \* number of sessionManager.saveSession calls
    authLog,           \* the statuses and the saveSession calls, in the order they happened
    pollCount,         \* detectAuthRequired calls made inside waitForAuthentication
    falsePolls,        \* how many of them returned false
    firstFalseAt,      \* elapsed when the first false poll returned, -1 if none
    initialDetect,     \* result of the initial detectAuthRequired: "none","true","false"
    lastObserve,       \* outcome of the latest page.observe: "none","ok","failed"
    lastDetect,        \* result of the latest detectAuthRequired call
    deadlineSeen,      \* the while condition was found false
    \* ---- AINavigator ----
    cdp,               \* this.cdp is set
    elementMappings,   \* backendNodeId -> xpath of its ElementMapping, 0 if no entry
    nodeIdToBackendId, \* sequential nodeId -> backendNodeId, 0 if no entry
    snapshotTaken,     \* some snapshot has rebuilt the maps
    snapshotNodes,     \* the backend ids of the nodes of the latest snapshot
    mappingFresh,      \* backendNodeId -> its ElementMapping was written by the latest snapshot
    findPc,            \* position of the findElements call in progress, "idle" if none
    findResult,        \* outcome of the latest findElements call, until act() has taken it
    \* ---- AINavigator.act ----
    actPc,             \* position of the one act() call
    actPlan,           \* actionPlan.actions as the LLM returned it
    actIdx,            \* index of the action the for loop is at
    actTarget,         \* targetElement of the current action
    actTrace,          \* what act() did, in order: resolutions, page primitives, delays
    actError,          \* the await that raised inside act()'s try, "none" if none did
    actRet,            \* "none" while running, then "true" or "false"
    \* ---- one call of a synchronous helper of AINavigator ----
    fnName,            \* the helper that is called, "none" if none
    fnArgs,            \* what it is called with
    fnResult,          \* what it returned
    fnPc,              \* "idle", "input" before the call, "returned" after it
    \* ---- AINavigator.extract ----
    extPc,             \* position of the one extract() call
    extRet,            \* "none" while running, then "data", "null" or "threw"
    \* ---- the promise of one AINavigator.waitForDOMSettle call ----
    now,               \* ms since the promise was created
    requestCount,      \* Network.requestWillBeSent events seen by onRequest
    responseCount,     \* responseReceived / loadingFailed events seen by onResponse
    settleTimer,       \* when the pending 500 ms timer fires, -1 if none is pending
    settlePc,          \* "idle", "waiting", "resolved"
    resolvedBy,        \* "none", "quiet" (the 500 ms timer) or "timeout" (the fallback)
    inFlight,          \* requests of the page that still await their response
    quietSince,        \* since when the two counts are equal and no request came, -1 if they differ
    settleCall,        \* the number of the waitForDOMSettle call on this session
    listeners,         \* the listeners registered on the session: <<event, handler, call>>
    lateTimers,        \* timers of resolved calls that have not fired yet: <<call, timer>>
    \* ---- AINavigator.initCDP under overlapping calls ----
    initPc,            \* caller -> position of its initCDP call
    sessionsCreated,   \* sessions newCDPSession has created so far
    thisCdp,           \* this.cdp: the number of the session it holds, 0 if undefined
    initGot,           \* caller -> the session its initCDP call returned, 0 if none
    \* ---- JobSearchService.searchJobs ----
    svcPc,             \* position of the one searchJobs call
    svcBoards,         \* options.boards: the names of the boards, in the order given
    svcIdx,            \* index of the board the for loop is at
    svcResults,        \* results, as pushed so far
    svcCalls,          \* what searchSingleBoard has called for the current board, in order
    svcFailed,         \* indexes of the boards whose searchSingleBoard threw
    \* ---- LinkedInAIStrategy.search ----
    stratPc,           \* position of the one search() call
    stratParams,       \* context.params: whether keywords and location are given
    stratCalls,        \* the calls made on the navigator, in order, with what they returned
    stratErr,          \* the error thrown inside the try of search(), "none" if none
    stratRet,          \* "none" while running, then "jobs" or "threw"
    \* ---- the progress event stream of one session id (route.ts) ----
    progressConnections, \* the connection whose controller is stored for the session, 0 if none
    progressUpdates,   \* the updates stored for the session, <<>> if there is no entry
    sseClients,        \* connection -> "unused", "open", "gone" (left, cancel() not yet run), "cancelled"
    sseReceived,       \* connection -> the messages its client has received, in order
    sseSent,           \* number of sendProgressUpdate calls so far
    \* ---- runJobSearch calls and the console interception (run.ts, fileLogger) ----
    runPc,             \* call -> position in runJobSearch
    runSessionId,      \* call -> its currentSessionId, 0 before the call
    runKeywords,       \* call -> params.keywords
    runRet,            \* call -> "none" while running, then the return path taken
    isIntercepted,     \* fileLogger: console is intercepted
    currentSessionId,  \* fileLogger: session the console is intercepted for, 0 for null
    consoleMethods     \* 0 for the original console methods, else the session whose closures are installed

detVars == <<detObservations, detResult, detPc>>
authVars == <<authPc, authRet, elapsed, saveSessionCalls,
              authLog, pollCount, falsePolls, firstFalseAt,
              initialDetect, lastObserve, lastDetect, deadlineSeen>>
navVars == <<cdp, elementMappings, nodeIdToBackendId, snapshotTaken,
             snapshotNodes, mappingFresh, findPc, findResult>>
actVars == <<actPc, actPlan, actIdx, actTarget, actTrace, actError, actRet>>
fnVars == <<fnName, fnArgs, fnResult, fnPc>>
settleVars == <<now, requestCount, responseCount, settleTimer, settlePc, resolvedBy,
                inFlight, quietSince, settleCall, listeners, lateTimers>>
cdpVars == <<initPc, sessionsCreated, thisCdp, initGot>>
\* the variables of the parts that are modelled on their own
svcVars == <<svcPc, svcBoards, svcIdx, svcResults, svcCalls, svcFailed>>
stratVars == <<stratPc, stratParams, stratCalls, stratErr, stratRet>>
sseVars == <<progressConnections, progressUpdates, sseClients, sseReceived, sseSent>>
runVars == <<runPc, runSessionId, runKeywords, runRet, isIntercepted, currentSessionId,
            consoleMethods>>
appVars == <<svcVars, stratVars, sseVars, runVars>>
soloVars == <<fnVars, settleVars, cdpVars, appVars>>
extVars == <<extPc, extRet>>
vars == <<detVars, authVars, navVars, actVars, soloVars, extVars>>
\* everything JobSearchService and AuthFlowManager leave alone
notSvc == <<detVars, navVars, actVars, extVars, fnVars, settleVars, cdpVars, stratVars,
           sseVars, runVars>>
\* everything LinkedInAIStrategy leaves alone, its navigator apart
notStrat == <<detVars, authVars, actVars, extVars, fnVars, settleVars, cdpVars, svcVars,
             sseVars, runVars>>
\* everything the progress event stream leaves alone
notSse == <<detVars, authVars, navVars, actVars, extVars, fnVars, settleVars, cdpVars,
            svcVars, stratVars, runVars>>
\* everything runJobSearch and the file logger leave alone
notRun == <<detVars, authVars, navVars, actVars, extVars, fnVars, settleVars, cdpVars,
            svcVars, stratVars, sseVars>>

----------------------------------------------------------------------------
(* Bounds *)

MaxObs == 2        \* observations returned by one page.observe call
DetectMs == 1000   \* longest time one detectAuthRequired poll takes
MaxBackend == 2    \* backend node ids the page can hold
MaxPos == 2        \* distinct positions (XPaths) a node can have
MaxElems == 1      \* elements in one LLM element-finding response
MaxPlan == 2       \* actions in one LLM action plan
MaxCandidates == 3 \* candidates findElements hands to act() for one target
MaxRequests == 2   \* requests the page sends while waitForDOMSettle listens
TickMs == 100      \* longest stretch of time without an event or a timer
MaxCallers == 2    \* calls into the navigator that overlap in time
MaxNodes == 3      \* nodes of an accessibility tree handed to the filter
MaxDepth == 3      \* elements from the document root down to a mapped element
MaxPreceding == 1  \* preceding siblings with the same tag an element can have
MaxBoards == 2     \* boards handed to one searchJobs call
MaxSettles == 2    \* waitForDOMSettle calls made one after the other on one session
MaxClients == 2    \* connections opened for one session id
MaxUpdates == 2    \* sendProgressUpdate calls for one session id
MaxRuns == 2       \* runJobSearch calls, which may overlap at their awaits
MaxSessions == 2   \* session ids the calls are made with

(* Program constants *)

timeout == 300000      \* waitForAuthentication: 5 minutes
checkInterval == 3000  \* waitForAuthentication: poll every 3 seconds
settleTimeout == 3000  \* waitForDOMSettle(timeout = 3000)
settleQuiet == 500     \* waitForDOMSettle: 500 ms of network quiet

----------------------------------------------------------------------------
(* AUTH_INDICATORS and the text functions detectAuthRequired uses *)

AUTH_INDICATORS ==
    << <<"l", "o", "g", "i", "n">>,
       <<"l", "o", "g", " ", "i", "n">>,
       <<"s", "i", "g", "n", " ", "i", "n">>,
       <<"s", "i", "g", "n", "i", "n">>,
       <<"a", "u", "t", "h", "e", "n", "t", "i", "c", "a", "t", "e">>,
       <<"e", "m", "a", "i", "l", " ", "f", "i", "e", "l", "d">>,
       <<"p", "a", "s", "s", "w", "o", "r", "d", " ", "f", "i", "e", "l", "d">>,
       <<"u", "s", "e", "r", "n", "a", "m", "e", " ", "f", "i", "e", "l", "d">>,
       <<"c", "r", "e", "a", "t", "e", " ", "a", "c", "c", "o", "u", "n", "t">>,
       <<"r", "e", "g", "i", "s", "t", "e", "r">>,
       <<"s", "i", "g", "n", " ", "u", "p">>,
       <<"c", "o", "n", "t", "i", "n", "u", "e", " ", "w", "i", "t", "h", " ", "g", "o", "o", "g", "l", "e">>,
       <<"j", "o", "i", "n", " ", "n", "o", "w">>,
       <<"f", "o", "r", "g", "o", "t", " ", "p", "a", "s", "s", "w", "o", "r", "d">> >>

UpperChars == <<"A", "B", "C", "D", "E", "F", "G", "H", "I", "J", "K", "L", "M",
                "N", "O", "P", "Q", "R", "S", "T", "U", "V", "W", "X", "Y", "Z">>
LowerChars == <<"a", "b", "c", "d", "e", "f", "g", "h", "i", "j", "k", "l", "m",
                "n", "o", "p", "q", "r", "s", "t", "u", "v", "w", "x", "y", "z">>

\* String.prototype.toLowerCase, one character
toLowerCaseChar(c) ==
    IF \E i \in 1..26 : UpperChars[i] = c
    THEN LowerChars[CHOOSE i \in 1..26 : UpperChars[i] = c]
    ELSE c

\* String.prototype.toLowerCase
toLowerCase(s) == [i \in 1..Len(s) |-> toLowerCaseChar(s[i])]

\* Array.prototype.join(' ')
RECURSIVE joinSpace(_)
joinSpace(args) ==
    IF args = <<>> THEN <<>>
    ELSE IF Len(args) = 1 THEN args[1]
    ELSE args[1] \o <<" ">> \o joinSpace(Tail(args))

\* String.prototype.includes
includes(text, indicator) ==
    \E i \in 1..(Len(text) - Len(indicator) + 1) :
        SubSeq(text, i, i + Len(indicator) - 1) = indicator

\* a plausible slip: the description is matched as written, not lower-cased
combinedText_CaseSensitive(obs) ==
    obs.description \o <<" ">> \o toLowerCase(joinSpace(obs.arguments))

\* desc, argsText and combinedText of one observation
combinedText(obs) ==
    toLowerCase(obs.description) \o <<" ">> \o toLowerCase(joinSpace(obs.arguments))

\* the for loop over AUTH_INDICATORS with its break, from indicator k on
RECURSIVE isAuthElementFrom(_, _)
isAuthElementFrom(text, k) ==
    IF k > Len(AUTH_INDICATORS) THEN FALSE
    ELSE IF includes(text, AUTH_INDICATORS[k]) THEN TRUE
    ELSE isAuthElementFrom(text, k + 1)

\* the forEach that counts authRelatedElements
RECURSIVE authRelatedElements(_)
authRelatedElements(observations) ==
    IF observations = <<>> THEN 0
    ELSE (IF isAuthElementFrom(combinedText(Head(observations)), 1) THEN 1 ELSE 0)
         + authRelatedElements(Tail(observations))

\* a plausible slip: the catch block answers "no auth needed"
detectAuthRequired_FailOpen(outcome) ==
    IF outcome.ok THEN authRelatedElements(outcome.observations) > 0 ELSE FALSE

\* detectAuthRequired: outcome.ok is FALSE when page.observe threw
detectAuthRequired(outcome) ==
    IF outcome.ok THEN authRelatedElements(outcome.observations) > 0 ELSE TRUE

----------------------------------------------------------------------------
(* Inputs: what page.observe can return *)

Descriptions ==
    { <<"S", "i", "g", "n", " ", "I", "n">>,
      <<"F", "o", "r", "g", "o", "t", " ", "p", "a", "s", "s", "w", "o", "r", "d">>,
      <<"S", "e", "a", "r", "c", "h", " ", "j", "o", "b", "s">>,
      <<"C", "l", "i", "c", "k", " ", "S", "i", "g", "n">>,
      <<"L", "O", "G">> }

Arguments ==
    { <<>>,
      << <<"i", "n">> >>,
      << <<"J", "o", "i", "n">>, <<"N", "o", "w">> >>,
      << <<"x">> >> }

Observation == [description : Descriptions, arguments : Arguments]

RECURSIVE SeqsUpTo(_, _)
SeqsUpTo(S, n) ==
    IF n = 0 THEN {<<>>}
    ELSE LET shorter == SeqsUpTo(S, n - 1)
         IN shorter \cup {Append(s, x) : s \in {t \in shorter : Len(t) = n - 1}, x \in S}

ObserveResults == SeqsUpTo(Observation, MaxObs)

\* outcomes of page.observe seen by the auth flow: it throws, or returns observations
ObserveOutcomes ==
    {[ok |-> FALSE, observations |-> <<>>]}
    \cup {[ok |-> TRUE, observations |-> o] : o \in {r \in ObserveResults : Len(r) <= 1}}

\* what one detectAuthRequired call can come to: whether observe returned, and the answer
DetectOutcomes ==
    {[ok |-> o.ok, required |-> detectAuthRequired(o)] : o \in ObserveOutcomes}

----------------------------------------------------------------------------
(* detectAuthRequired applied to arbitrary observations *)

DetectCall ==
    /\ detPc = "input"
    /\ detResult' = detectAuthRequired([ok |-> TRUE, observations |-> detObservations])
    /\ detPc' = "returned"
    /\ UNCHANGED <<detObservations, authVars, navVars, actVars, soloVars, extVars>>

----------------------------------------------------------------------------
(* checkAndHandleAuth *)

\* updateAuthState with a subscriber: the status is passed to onAuthStateChange
updateAuthState(log, status) == Append(log, [kind |-> "status", status |-> status])

\* sessionManager.saveSession(boardUrl) was called
saveSession(log) == Append(log, [kind |-> "saveSession", status |-> "-"])

IsStatus(e) == e.kind = "status"

\* the statuses passed to onAuthStateChange, in order
authStatuses == [i \in 1..Len(SelectSeq(authLog, IsStatus)) |->
                    SelectSeq(authLog, IsStatus)[i].status]

\* line 64-71: emit 'checking', loadSession (swallows its own errors)
AuthStart ==
    /\ authPc = "idle"
    /\ authLog' = updateAuthState(authLog, "checking")
    /\ authPc' = "goto"
    /\ UNCHANGED <<authRet, elapsed, saveSessionCalls, pollCount,
                   falsePolls, firstFalseAt, initialDetect, lastObserve, lastDetect,
                   deadlineSeen, detVars, navVars, actVars, soloVars, extVars>>

\* line 77-78: page.goto / waitForLoadState, either of which may reject
AuthGoto ==
    /\ authPc = "goto"
    /\ \E navigated \in BOOLEAN :
          IF navigated
          THEN authPc' = "detect" /\ authRet' = authRet
          ELSE authPc' = "threw" /\ authRet' = "threw"
    /\ UNCHANGED <<authLog, elapsed, saveSessionCalls, pollCount,
                   falsePolls, firstFalseAt, initialDetect, lastObserve, lastDetect,
                   deadlineSeen, detVars, navVars, actVars, soloVars, extVars>>

\* a plausible slip: the session is saved on the already-authenticated path too
AuthInitialDetect_SavesSession ==
    /\ authPc = "detect"
    /\ \E outcome \in DetectOutcomes :
          LET authRequired == outcome.required IN
          /\ lastObserve' = (IF outcome.ok THEN "ok" ELSE "failed")
          /\ lastDetect' = authRequired
          /\ initialDetect' = (IF authRequired THEN "true" ELSE "false")
          /\ IF ~authRequired
             THEN /\ authLog' = updateAuthState(saveSession(authLog), "completed")
                  /\ saveSessionCalls' = saveSessionCalls + 1
                  /\ authRet' = "true"
                  /\ authPc' = "done"
             ELSE /\ authLog' = updateAuthState(authLog, "in-progress")
                  /\ saveSessionCalls' = saveSessionCalls
                  /\ authRet' = authRet
                  /\ authPc' = "loop"
    /\ elapsed' = 0
    /\ UNCHANGED <<pollCount, falsePolls, firstFalseAt, deadlineSeen, detVars, navVars, actVars, soloVars, extVars>>

\* line 81-90 and, when auth is required, waitForAuthentication line 241-249
\* (the 'required' update of line 98-103 is commented out in the source)
AuthInitialDetect ==
    /\ authPc = "detect"
    /\ \E outcome \in DetectOutcomes :
          LET authRequired == outcome.required IN
          /\ lastObserve' = (IF outcome.ok THEN "ok" ELSE "failed")
          /\ lastDetect' = authRequired
          /\ initialDetect' = (IF authRequired THEN "true" ELSE "false")
          /\ IF ~authRequired
             THEN /\ authLog' = updateAuthState(authLog, "completed")
                  /\ authRet' = "true"
                  /\ authPc' = "done"
             ELSE /\ authLog' = updateAuthState(authLog, "in-progress")
                  /\ authRet' = authRet
                  /\ authPc' = "loop"
    /\ elapsed' = 0
    /\ UNCHANGED <<saveSessionCalls, pollCount, falsePolls,
                   firstFalseAt, deadlineSeen, detVars, navVars, actVars, soloVars, extVars>>

\* a plausible slip: the timeout returns false without the 'failed' status
AuthLoopCheck_Silent ==
    /\ authPc = "loop"
    /\ IF elapsed < timeout
       THEN /\ authPc' = "sleep"
            /\ UNCHANGED <<authLog, authRet, deadlineSeen>>
       ELSE /\ deadlineSeen' = TRUE
            /\ authLog' = authLog
            /\ authRet' = "false"
            /\ authPc' = "done"
    /\ UNCHANGED <<elapsed, saveSessionCalls, pollCount, falsePolls,
                   firstFalseAt, initialDetect, lastObserve, lastDetect, detVars, navVars, actVars, soloVars, extVars>>

\* line 251 and, when the condition is false, line 270-271 and 119-124
AuthLoopCheck ==
    /\ authPc = "loop"
    /\ IF elapsed < timeout
       THEN /\ authPc' = "sleep"
            /\ UNCHANGED <<authLog, authRet, deadlineSeen>>
       ELSE /\ deadlineSeen' = TRUE
            /\ authLog' = updateAuthState(authLog, "failed")
            /\ authRet' = "false"
            /\ authPc' = "done"
    /\ UNCHANGED <<elapsed, saveSessionCalls, pollCount, falsePolls,
                   firstFalseAt, initialDetect, lastObserve, lastDetect, detVars, navVars, actVars, soloVars, extVars>>

\* line 252: page.waitForTimeout(checkInterval)
AuthSleep ==
    /\ authPc = "sleep"
    /\ elapsed' = elapsed + checkInterval
    /\ authPc' = "poll"
    /\ UNCHANGED <<authLog, authRet, saveSessionCalls, pollCount,
                   falsePolls, firstFalseAt, initialDetect, lastObserve, lastDetect,
                   deadlineSeen, detVars, navVars, actVars, soloVars, extVars>>

\* line 254-267: one poll of detectAuthRequired, taking 0 or DetectMs
AuthPoll ==
    /\ authPc = "poll"
    /\ \E outcome \in DetectOutcomes, d \in {0, DetectMs} :
          LET stillNeedsAuth == outcome.required IN
          /\ lastObserve' = (IF outcome.ok THEN "ok" ELSE "failed")
          /\ lastDetect' = stillNeedsAuth
          /\ elapsed' = elapsed + d
          /\ pollCount' = pollCount + 1
          /\ IF ~stillNeedsAuth
             THEN /\ falsePolls' = falsePolls + 1
                  /\ firstFalseAt' = (IF firstFalseAt = -1 THEN elapsed + d ELSE firstFalseAt)
                  /\ authPc' = "save"
             ELSE /\ UNCHANGED <<falsePolls, firstFalseAt>>
                  /\ authPc' = "loop"
    /\ UNCHANGED <<authLog, authRet, saveSessionCalls,
                   initialDetect, deadlineSeen, detVars, navVars, actVars, soloVars, extVars>>

\* a plausible slip: 'completed' is announced before the session is persisted
AuthSave_EmitFirst ==
    /\ authPc = "save"
    /\ saveSessionCalls' = saveSessionCalls + 1
    /\ \E saved \in BOOLEAN :
          IF saved
          THEN /\ authLog' = saveSession(updateAuthState(authLog, "completed"))
               /\ authRet' = "true"
               /\ authPc' = "done"
          ELSE /\ authLog' = saveSession(updateAuthState(authLog, "completed"))
               /\ authRet' = "threw"
               /\ authPc' = "threw"
    /\ UNCHANGED <<elapsed, pollCount, falsePolls, firstFalseAt, initialDetect,
                   lastObserve, lastDetect, deadlineSeen, detVars, navVars, actVars, soloVars, extVars>>

\* line 108-117: saveSession, which may reject (cookies(), new URL, mkdir, writeFile),
\* then 'completed'
AuthSave ==
    /\ authPc = "save"
    /\ saveSessionCalls' = saveSessionCalls + 1
    /\ \E saved \in BOOLEAN :
          IF saved
          THEN /\ authLog' = updateAuthState(saveSession(authLog), "completed")
               /\ authRet' = "true"
               /\ authPc' = "done"
          ELSE /\ authLog' = saveSession(authLog)
               /\ authRet' = "threw"
               /\ authPc' = "threw"
    /\ UNCHANGED <<elapsed, pollCount, falsePolls, firstFalseAt, initialDetect,
                   lastObserve, lastDetect, deadlineSeen, detVars, navVars, actVars, soloVars, extVars>>

----------------------------------------------------------------------------
(* The page and the accessibility snapshot of AINavigator *)

BackendIds == 1..MaxBackend
NodeIds == 1..MaxBackend
\* the document as a snapshot finds it: backend node id -> position of the node
\* (its XPath), 0 if the node is absent; it may differ from one snapshot to the next
Pages == [BackendIds -> 0..MaxPos]

\* the backend ids present in the document, in document order
RECURSIVE presentFrom(_, _)
presentFrom(pg, b) ==
    IF b > MaxBackend THEN <<>>
    ELSE (IF pg[b] # 0 THEN <<b>> ELSE <<>>) \o presentFrom(pg, b + 1)

\* cdp.send('Accessibility.getFullAXTree'): one node per present DOM node,
\* numbered sequentially within this snapshot
getFullAXTree(pg) ==
    LET present == presentFrom(pg, 1)
    IN  [i \in 1..Len(present) |-> [nodeId |-> i, backendDOMNodeId |-> present[i]]]

\* buildElementMappings: for each node, DOM.resolveNode and Runtime.callFunctionOn;
\* a node whose resolution fails is skipped, the others are set()
RECURSIVE buildElementMappings(_, _, _, _)
buildElementMappings(mappings, nodes, pg, unresolved) ==
    IF nodes = <<>> THEN mappings
    ELSE LET b == Head(nodes).backendDOMNodeId
             next == IF b # 0 /\ b \notin unresolved
                     THEN [mappings EXCEPT ![b] = pg[b]]
                     ELSE mappings
         IN buildElementMappings(next, Tail(nodes), pg, unresolved)

\* formatAccessibilityTree, buildMappings pass: nodeIdToBackendId.clear(), then one
\* entry per node that has a backendDOMNodeId
buildMappingsOver(ids, nodes) ==
    [i \in ids |->
        IF \E k \in 1..Len(nodes) : nodes[k].nodeId = i /\ nodes[k].backendDOMNodeId # 0
        THEN nodes[CHOOSE k \in 1..Len(nodes) : nodes[k].nodeId = i].backendDOMNodeId
        ELSE 0]

buildMappings(nodes) == buildMappingsOver(NodeIds, nodes)

\* getFullAccessibilityTree on page pg; failAt names the protocol call that rejects
getFullAccessibilityTree(mappings, idMap, pg, failAt, unresolved) ==
    IF failAt \in {"DOM.enable", "DOM.getDocument", "Accessibility.getFullAXTree"}
    THEN [threw |-> TRUE, rebuilt |-> FALSE, elementMappings |-> mappings,
          nodeIdToBackendId |-> idMap]
    ELSE LET nodes == getFullAXTree(pg)
         IN  [threw |-> (failAt = "DOM.disable"), rebuilt |-> TRUE,
              elementMappings |-> buildElementMappings(mappings, nodes, pg, unresolved),
              nodeIdToBackendId |-> buildMappings(nodes)]

----------------------------------------------------------------------------
(* findElements *)

Omitted == -1
\* confidences in tenths
Confidences == {Omitted, 0, 9}

LLMElement == [nodeId : NodeIds, confidence : Confidences]

\* createCompletion rejects (network error, invalid JSON, bad structure), or
\* returns data with an elements list
LLMResponses ==
    {[ok |-> FALSE, elements |-> <<>>]}
    \cup {[ok |-> TRUE, elements |-> es] : es \in SeqsUpTo(LLMElement, MaxElems)}

\* element.confidence || 0.7
confidenceOrDefault(c) == IF c = Omitted \/ c = 0 THEN 7 ELSE c

\* the for loop over the LLM's elements, line 757-804
\* (for the properties, fresh records whether the mapping used was written by
\* the latest snapshot, and supplied the confidence as the LLM gave it)
RECURSIVE mapElements(_, _, _, _)
mapElements(elements, idMap, mappings, fresh) ==
    IF elements = <<>> THEN <<>>
    ELSE LET element == Head(elements)
             backendNodeId == idMap[element.nodeId]
             rest == mapElements(Tail(elements), idMap, mappings, fresh)
         IN IF backendNodeId # 0 /\ mappings[backendNodeId] # 0
            THEN <<[xpath |-> mappings[backendNodeId],
                    confidence |-> confidenceOrDefault(element.confidence),
                    backendNodeId |-> backendNodeId,
                    fresh |-> fresh[backendNodeId],
                    supplied |-> element.confidence]>> \o rest
            ELSE rest

\* findElements line 724: waitForDOMSettle, whose initCDP opens the session on
\* first use; newCDPSession or one of the enable calls may reject
waitForDOMSettle ==
    /\ findPc = "idle"
    /\ \E failAt \in {"none", "newCDPSession", "DOM.enable"} :
          /\ cdp' = (cdp \/ failAt # "newCDPSession")
          /\ IF ~cdp /\ failAt # "none"
             THEN /\ findPc' = "idle"
                  /\ findResult' = [status |-> "threw", elements |-> <<>>]
             ELSE /\ findPc' = "snapshot"
                  /\ findResult' = [status |-> "running", elements |-> <<>>]
    /\ UNCHANGED <<elementMappings, nodeIdToBackendId, snapshotTaken, snapshotNodes,
                   mappingFresh, detVars, authVars, soloVars>>

\* a caller awaits navigator.findElements(instruction)
FindElements ==
    /\ actPc = "idle" /\ extPc = "idle"
    /\ waitForDOMSettle
    /\ UNCHANGED <<actVars, extVars>>

\* findElements line 725: getFullAccessibilityTree on the document pg, which
\* rethrows a rejected protocol call
snapshot(pg) ==
    /\ findPc = "snapshot"
    /\ \E failAt \in {"none", "DOM.getDocument", "Accessibility.getFullAXTree", "DOM.disable"},
          unresolved \in SUBSET BackendIds :
          LET snap == getFullAccessibilityTree(elementMappings, nodeIdToBackendId, pg,
                                               failAt, unresolved)
          IN  /\ elementMappings' = snap.elementMappings
              /\ nodeIdToBackendId' = snap.nodeIdToBackendId
              /\ snapshotTaken' = (snapshotTaken \/ snap.rebuilt)
              /\ snapshotNodes' = (IF snap.rebuilt THEN {b \in BackendIds : pg[b] # 0}
                                   ELSE snapshotNodes)
              /\ mappingFresh' = (IF snap.rebuilt
                                  THEN [b \in BackendIds |-> pg[b] # 0 /\ b \notin unresolved]
                                  ELSE mappingFresh)
              /\ IF snap.threw
                 THEN /\ findPc' = "idle"
                      /\ findResult' = [status |-> "threw", elements |-> <<>>]
                 ELSE /\ findPc' = "llm"
                      /\ UNCHANGED findResult
    /\ UNCHANGED <<cdp, detVars, authVars, soloVars>>

\* the snapshot of a findElements call made from outside act(); the page may
\* have navigated or mutated since the previous one
FindSnapshot ==
    /\ actPc = "idle"
    /\ \E pg \in Pages : snapshot(pg)
    /\ UNCHANGED <<actVars, extVars>>

\* findElements line 730-819: the completion and the mapping of its elements,
\* inside try/catch
FindLLM ==
    /\ actPc = "idle" /\ extPc # "tree"
    /\ findPc = "llm"
    /\ \E llm \in LLMResponses :
          findResult' = [status |-> "returned",
                         elements |-> IF llm.ok
                                      THEN mapElements(llm.elements, nodeIdToBackendId,
                                                       elementMappings, mappingFresh)
                                      ELSE <<>>]
    /\ findPc' = "idle"
    /\ UNCHANGED <<cdp, elementMappings, nodeIdToBackendId, snapshotTaken,
                   snapshotNodes, mappingFresh, actVars, detVars, authVars, soloVars, extVars>>

\* cleanup, line 1024-1039, between calls: the session is detached (a detach
\* error is swallowed), this.cdp is unset and elementMappings is cleared
cleanup ==
    /\ cdp' = FALSE
    /\ elementMappings' = [b \in BackendIds |-> 0]
    /\ mappingFresh' = [b \in BackendIds |-> FALSE]
    /\ UNCHANGED <<nodeIdToBackendId, snapshotTaken, snapshotNodes, findPc, findResult>>

\* a cleanup() call of the navigator's owner, between the other calls
Cleanup ==
    /\ findPc = "idle" /\ actPc = "idle" /\ extPc = "idle"
    /\ cleanup
    /\ UNCHANGED <<actVars, detVars, authVars, soloVars, extVars>>

----------------------------------------------------------------------------
(* act *)

\* SingleAction: target, value and key are optional
ActionPool ==
    { [action |-> "click",  target |-> TRUE,  value |-> FALSE, key |-> FALSE],
      [action |-> "type",   target |-> TRUE,  value |-> TRUE,  key |-> FALSE],
      [action |-> "clear",  target |-> TRUE,  value |-> FALSE, key |-> FALSE],
      [action |-> "select", target |-> TRUE,  value |-> TRUE,  key |-> FALSE],
      [action |-> "press",  target |-> TRUE,  value |-> FALSE, key |-> TRUE],
      [action |-> "press",  target |-> FALSE, value |-> FALSE, key |-> TRUE],
      [action |-> "type",   target |-> FALSE, value |-> TRUE,  key |-> FALSE],
      [action |-> "click",  target |-> FALSE, value |-> FALSE, key |-> FALSE] }

ActionPlans == SeqsUpTo(ActionPool, MaxPlan)

\* a plausible slip: a sort that puts the later of two equal candidates first
RECURSIVE insertSorted_Unstable(_, _)
insertSorted_Unstable(sorted, e) ==
    IF sorted = <<>> THEN <<e>>
    ELSE IF Head(sorted).confidence > e.confidence
         THEN <<Head(sorted)>> \o insertSorted_Unstable(Tail(sorted), e)
         ELSE <<e>> \o sorted

\* elements.sort((a, b) => b.confidence - a.confidence): a stable sort, descending
RECURSIVE insertSorted(_, _)
insertSorted(sorted, e) ==
    IF sorted = <<>> THEN <<e>>
    ELSE IF Head(sorted).confidence >= e.confidence
         THEN <<Head(sorted)>> \o insertSorted(Tail(sorted), e)
         ELSE <<e>> \o sorted

RECURSIVE sortByConfidence(_)
sortByConfidence(elements) ==
    IF elements = <<>> THEN <<>>
    ELSE insertSorted(sortByConfidence(SubSeq(elements, 1, Len(elements) - 1)),
                      elements[Len(elements)])

\* the page calls of the switch (with a target) and of the two else-if branches
pagePrimitives(a) ==
    IF a.target
    THEN CASE a.action = "click"  -> <<"click">>
           [] a.action = "type"   -> <<"click", "fill", "type">>
           [] a.action = "clear"  -> <<"fill">>
           [] a.action = "select" -> <<"selectOption">>
           [] a.action = "press"  -> IF a.key THEN <<"press">> ELSE <<>>
           [] OTHER -> <<>>
    ELSE IF a.action = "press" /\ a.key THEN <<"keyboard.press">>
    ELSE IF a.action = "type" /\ a.value THEN <<"keyboard.type">>
    ELSE <<>>

traceEvent(i, op, arg) == [i |-> i, op |-> op, arg |-> arg]

\* line 851-867: the LLM turns the instruction into a plan, or createCompletion rejects
ActStart ==
    /\ actPc = "idle" /\ actRet = "none" /\ findPc = "idle"
    /\ \E ok \in BOOLEAN, plan \in ActionPlans :
          IF ok
          THEN /\ actPlan' = plan
               /\ actIdx' = 1
               /\ IF plan = <<>>
                  THEN actPc' = "done" /\ actRet' = "true"
                  ELSE actPc' = "resolve" /\ actRet' = actRet
               /\ UNCHANGED actError
          ELSE /\ plan = <<>>
               /\ actPc' = "done" /\ actRet' = "false"
               /\ actError' = "createCompletion"
               /\ UNCHANGED <<actPlan, actIdx>>
    /\ UNCHANGED <<actTarget, actTrace, navVars, detVars, authVars, soloVars, extVars>>

\* line 872: an action without a target goes straight to its branch
ActNoTarget ==
    /\ actPc = "resolve"
    /\ ~actPlan[actIdx].target
    /\ actTarget' = 0
    /\ actPc' = "perform"
    /\ UNCHANGED <<actPlan, actIdx, actTrace, actError, actRet, navVars, detVars, authVars, soloVars, extVars>>

\* line 872-873: an action with a target calls findElements(action.target)
ActFindElements ==
    /\ actPc = "resolve"
    /\ actPlan[actIdx].target
    /\ waitForDOMSettle
    /\ actPc' = "finding"
    /\ UNCHANGED <<actPlan, actIdx, actTarget, actTrace, actError, actRet, extVars>>

\* the document act() is run against: every node present, at a position of its own
\* as far as there are positions
ActPage == [b \in BackendIds |-> ((b - 1) % MaxPos) + 1]

\* line 873, inside findElements: the snapshot of the page act() is working on
ActSnapshot ==
    /\ actPc = "finding"
    /\ snapshot(ActPage)
    /\ UNCHANGED <<actVars, extVars>>

\* what findElements hands back to act(): its elements, or the rejection of
\* its settle wait or snapshot
findElementsReturn(llm) ==
    IF findPc = "idle"
    THEN [threw |-> TRUE, elements |-> <<>>]
    ELSE [threw |-> FALSE,
          elements |-> IF llm.ok
                       THEN mapElements(llm.elements, nodeIdToBackendId,
                                        elementMappings, mappingFresh)
                       ELSE <<>>]

\* a plausible slip: an action whose target is not found is skipped and the plan goes on
ActResolved_SkipsMissing ==
    /\ actPc = "finding"
    /\ findPc = "llm" \/ (findPc = "idle" /\ findResult.status = "threw")
    /\ \E llm \in LLMResponses :
          LET found == findElementsReturn(llm)
          IN  IF found.threw
              THEN /\ actTrace' = Append(actTrace, traceEvent(actIdx, "findElements", -1))
                   /\ actPc' = "done" /\ actRet' = "false"
                   /\ actError' = "findElements"
                   /\ UNCHANGED actTarget
              ELSE IF found.elements = <<>>
              THEN /\ actTrace' = Append(actTrace, traceEvent(actIdx, "findElements", 0))
                   /\ actPc' = "delay" /\ actRet' = actRet
                   /\ UNCHANGED <<actTarget, actError>>
              ELSE /\ actTrace' = Append(actTrace, traceEvent(actIdx, "findElements",
                                                               Len(found.elements)))
                   /\ actTarget' = sortByConfidence(found.elements)[1].xpath
                   /\ actPc' = "perform" /\ actRet' = actRet
                   /\ UNCHANGED actError
    /\ findPc' = "idle"
    /\ findResult' = [status |-> "none", elements |-> <<>>]
    /\ UNCHANGED <<actPlan, actIdx, cdp, elementMappings, nodeIdToBackendId, snapshotTaken,
                   snapshotNodes, mappingFresh, detVars, authVars, soloVars, extVars>>

\* line 730-819 of findElements (the completion and the mapping of its
\* elements), then line 873-879 of act: no candidate throws, which the catch
\* of line 940 turns into false, as it does a rejected findElements
ActResolved ==
    /\ actPc = "finding"
    /\ findPc = "llm" \/ (findPc = "idle" /\ findResult.status = "threw")
    /\ \E llm \in LLMResponses :
          LET found == findElementsReturn(llm)
          IN  IF found.threw
              THEN /\ actTrace' = Append(actTrace, traceEvent(actIdx, "findElements", -1))
                   /\ actPc' = "done" /\ actRet' = "false"
                   /\ actError' = "findElements"
                   /\ UNCHANGED actTarget
              ELSE IF found.elements = <<>>
              THEN /\ actTrace' = Append(actTrace, traceEvent(actIdx, "findElements", 0))
                   /\ actPc' = "done" /\ actRet' = "false"
                   /\ actError' = "Could not find element"
                   /\ UNCHANGED actTarget
              ELSE /\ actTrace' = Append(actTrace, traceEvent(actIdx, "findElements",
                                                               Len(found.elements)))
                   /\ actTarget' = sortByConfidence(found.elements)[1].xpath
                   /\ actPc' = "perform" /\ actRet' = actRet
                   /\ UNCHANGED actError
    /\ findPc' = "idle"
    /\ findResult' = [status |-> "none", elements |-> <<>>]
    /\ UNCHANGED <<actPlan, actIdx, cdp, elementMappings, nodeIdToBackendId, snapshotTaken,
                   snapshotNodes, mappingFresh, detVars, authVars, soloVars, extVars>>

\* the first n page calls of the current action, as trace events
performed(n) ==
    [k \in 1..n |-> traceEvent(actIdx, pagePrimitives(actPlan[actIdx])[k],
                                IF actTarget = 0 THEN 0 ELSE 1)]

\* a plausible slip: a rejected page call is not caught and act() rejects
ActPerform_Rethrows ==
    /\ actPc = "perform"
    /\ \E n \in 0..Len(pagePrimitives(actPlan[actIdx])) :
          /\ actTrace' = actTrace \o performed(n)
          /\ IF n < Len(pagePrimitives(actPlan[actIdx]))
             THEN actPc' = "done" /\ actRet' = "threw" /\ actError' = "page"
             ELSE actPc' = "delay" /\ actRet' = actRet /\ actError' = actError
    /\ UNCHANGED <<actPlan, actIdx, actTarget, navVars, detVars, authVars, soloVars, extVars>>

\* line 891-933: the page calls of the action, each of which may reject; the
\* catch of line 940 then makes act() return false
ActPerform ==
    /\ actPc = "perform"
    /\ \E n \in 0..Len(pagePrimitives(actPlan[actIdx])) :
          /\ actTrace' = actTrace \o performed(n)
          /\ IF n < Len(pagePrimitives(actPlan[actIdx]))
             THEN actPc' = "done" /\ actRet' = "false" /\ actError' = "page"
             ELSE actPc' = "delay" /\ actRet' = actRet /\ actError' = actError
    /\ UNCHANGED <<actPlan, actIdx, actTarget, navVars, detVars, authVars, soloVars, extVars>>

\* a plausible slip: the delay after the last action is left out
ActDelay_NotAfterLast ==
    /\ actPc = "delay"
    /\ \E ok \in BOOLEAN :
          IF ok
          THEN /\ actTrace' = (IF actIdx = Len(actPlan) THEN actTrace
                               ELSE Append(actTrace, traceEvent(actIdx, "waitForTimeout", 500)))
               /\ IF actIdx = Len(actPlan)
                  THEN actPc' = "done" /\ actRet' = "true" /\ actIdx' = actIdx
                  ELSE actPc' = "resolve" /\ actRet' = actRet /\ actIdx' = actIdx + 1
               /\ actTarget' = 0
               /\ UNCHANGED actError
          ELSE /\ actPc' = "done" /\ actRet' = "false"
               /\ actError' = "waitForTimeout"
               /\ UNCHANGED <<actTrace, actIdx, actTarget>>
    /\ UNCHANGED <<actPlan, navVars, detVars, authVars, soloVars, extVars>>

\* line 936-939: page.waitForTimeout(500), then the next action or return true;
\* the wait rejects when the page has been closed
ActDelay ==
    /\ actPc = "delay"
    /\ \E ok \in BOOLEAN :
          IF ok
          THEN /\ actTrace' = Append(actTrace, traceEvent(actIdx, "waitForTimeout", 500))
               /\ IF actIdx = Len(actPlan)
                  THEN actPc' = "done" /\ actRet' = "true" /\ actIdx' = actIdx
                  ELSE actPc' = "resolve" /\ actRet' = actRet /\ actIdx' = actIdx + 1
               /\ actTarget' = 0
               /\ UNCHANGED actError
          ELSE /\ actPc' = "done" /\ actRet' = "false"
               /\ actError' = "waitForTimeout"
               /\ UNCHANGED <<actTrace, actIdx, actTarget>>
    /\ UNCHANGED <<actPlan, navVars, detVars, authVars, soloVars, extVars>>

----------------------------------------------------------------------------
(* act: the choice of the target among the candidates *)

\* the arrays findElements can hand to act(): the LLM's elements, in its order,
\* resolved against a snapshot of ActPage
CandidateLists ==
    {mapElements(es, [i \in NodeIds |-> i], ActPage, [b \in BackendIds |-> TRUE]) :
        es \in SeqsUpTo(LLMElement, MaxCandidates)}

\* line 879: elements.sort((a, b) => b.confidence - a.confidence)[0]
PickTarget ==
    /\ fnName = "sort" /\ fnPc = "input"
    /\ fnArgs # <<>>
    /\ fnResult' = sortByConfidence(fnArgs)[1]
    /\ fnPc' = "returned"
    /\ UNCHANGED <<fnName, fnArgs, settleVars, cdpVars, appVars, detVars, authVars, navVars, actVars,
                   extVars>>

----------------------------------------------------------------------------
(* extract *)

\* line 959: waitForDOMSettle, outside any try; then line 962 chooses between
\* the area and the whole accessibility tree, whose snapshot is next
ExtractStart ==
    /\ extPc = "idle" /\ extRet = "none" /\ actPc = "idle" /\ findPc = "idle"
    /\ \E area \in BOOLEAN, failAt \in {"none", "newCDPSession", "DOM.enable"} :
          /\ cdp' = (cdp \/ failAt # "newCDPSession")
          /\ IF ~cdp /\ failAt # "none"
             THEN /\ extPc' = "done" /\ extRet' = "threw"
                  /\ UNCHANGED <<findPc, findResult>>
             ELSE IF area
             THEN /\ extPc' = "area" /\ extRet' = extRet
                  /\ UNCHANGED <<findPc, findResult>>
             ELSE /\ extPc' = "tree" /\ extRet' = extRet
                  /\ findPc' = "snapshot"
                  /\ findResult' = [status |-> "running", elements |-> <<>>]
    /\ UNCHANGED <<elementMappings, nodeIdToBackendId, snapshotTaken, snapshotNodes,
                   mappingFresh, detVars, authVars, actVars, soloVars>>

\* line 964: findElements(options.area)
ExtractFindElements ==
    /\ extPc = "area"
    /\ waitForDOMSettle
    /\ extPc' = "finding"
    /\ UNCHANGED <<extRet, actVars>>

\* line 964-974: the awaited findElements or getFullAccessibilityTree has
\* settled, and with an area the text of the element or of the body is read;
\* none of it is inside a try
ExtractContent ==
    /\ \/ extPc = "finding" /\ findPc = "idle"
       \/ extPc = "tree" /\ findPc # "snapshot"
    /\ \E textOk \in BOOLEAN :
          IF findResult.status = "threw" \/ (extPc = "finding" /\ ~textOk)
          THEN extPc' = "done" /\ extRet' = "threw"
          ELSE extPc' = "llm" /\ extRet' = extRet
    /\ findPc' = "idle"
    /\ UNCHANGED <<cdp, elementMappings, nodeIdToBackendId, snapshotTaken, snapshotNodes,
                   mappingFresh, findResult, detVars, authVars, actVars, soloVars>>

\* line 993-1018: createCompletion inside try/catch; the catch returns null
ExtractLLM ==
    /\ extPc = "llm"
    /\ \E ok \in BOOLEAN : extRet' = (IF ok THEN "data" ELSE "null")
    /\ extPc' = "done"
    /\ UNCHANGED <<navVars, detVars, authVars, actVars, soloVars>>

----------------------------------------------------------------------------
(* waitForDOMSettle: the promise of line 257-300 *)

Min(a, b) == IF a <= b THEN a ELSE b

\* checkSettle, line 262-272: with equal counts the pending timer is replaced
\* by one that fires 500 ms from now; with different counts nothing is done
checkSettle(requests, responses, timer, t) ==
    IF requests = responses THEN t + settleQuiet ELSE timer

\* since when the counts have been equal without a request arriving
quietFrom(requests, responses, since, t, isRequest) ==
    IF requests # responses THEN -1
    ELSE IF since = -1 \/ isRequest THEN t
    ELSE since

\* line 285-288: the three listeners a call registers, two events sharing
\* onResponse; cdp.off takes off exactly the handler it is given
handlersOf(call) ==
    {<<"Network.requestWillBeSent", "onRequest", call>>,
     <<"Network.responseReceived", "onResponse", call>>,
     <<"Network.loadingFailed", "onResponse", call>>}

\* line 257-299: the listeners are attached, the fallback timer is set and
\* checkSettle runs once; a request sent earlier may still await its response
SettleStart ==
    /\ settlePc = "idle"
    /\ \E earlier \in 0..1 : inFlight' = earlier
    /\ settleTimer' = checkSettle(requestCount, responseCount, settleTimer, now)
    /\ quietSince' = quietFrom(requestCount, responseCount, quietSince, now, FALSE)
    /\ settlePc' = "waiting"
    /\ listeners' = listeners \cup handlersOf(settleCall)
    /\ UNCHANGED <<now, requestCount, responseCount, resolvedBy, settleCall, lateTimers,
                   fnVars, cdpVars, appVars, detVars, authVars, navVars, actVars, extVars>>

\* onRequest, line 274-277
OnRequest ==
    /\ settlePc # "idle"
    /\ <<"Network.requestWillBeSent", "onRequest", settleCall>> \in listeners
    /\ requestCount < MaxRequests
    /\ requestCount' = requestCount + 1
    /\ settleTimer' = -1
    /\ inFlight' = inFlight + 1
    /\ quietSince' = quietFrom(requestCount + 1, responseCount, quietSince, now, TRUE)
    /\ UNCHANGED <<now, responseCount, settlePc, resolvedBy, settleCall, listeners,
                   lateTimers, fnVars, cdpVars, appVars,
                   detVars, authVars, navVars, actVars, extVars>>

\* onResponse, line 279-282, for responseReceived and for loadingFailed
OnResponse ==
    /\ settlePc # "idle"
    /\ \E event \in {"Network.responseReceived", "Network.loadingFailed"} :
          <<event, "onResponse", settleCall>> \in listeners
    /\ inFlight > 0
    /\ responseCount' = responseCount + 1
    /\ inFlight' = inFlight - 1
    /\ settleTimer' = checkSettle(requestCount, responseCount + 1, settleTimer, now)
    /\ quietSince' = quietFrom(requestCount, responseCount + 1, quietSince, now, FALSE)
    /\ UNCHANGED <<now, requestCount, settlePc, resolvedBy, settleCall, listeners,
                   lateTimers, fnVars, cdpVars, appVars,
                   detVars, authVars, navVars, actVars, extVars>>

\* time passes, up to the next timer that is due
Tick ==
    /\ settlePc = "waiting"
    /\ now < settleTimeout
    /\ settleTimer = -1 \/ now < settleTimer
    /\ now' = Min(now + TickMs,
                  IF settleTimer = -1 THEN settleTimeout ELSE Min(settleTimer, settleTimeout))
    /\ UNCHANGED <<requestCount, responseCount, settleTimer, settlePc, resolvedBy, inFlight,
                   quietSince, settleCall, listeners, lateTimers, fnVars, cdpVars, appVars,
                   detVars, authVars, navVars, actVars, extVars>>

\* a plausible slip: the quiet path forgets the loadingFailed listener
FireQuiet_KeepsLoadingFailed ==
    /\ settlePc = "waiting"
    /\ settleTimer # -1 /\ now >= settleTimer
    /\ listeners' = listeners \ {<<"Network.requestWillBeSent", "onRequest", settleCall>>,
                                  <<"Network.responseReceived", "onResponse", settleCall>>}
    /\ lateTimers' = lateTimers \cup {<<settleCall, "fallback">>}
    /\ settlePc' = "resolved"
    /\ resolvedBy' = "quiet"
    /\ UNCHANGED <<now, requestCount, responseCount, settleTimer, inFlight, quietSince,
                   settleCall,
                   fnVars, cdpVars, appVars, detVars, authVars, navVars, actVars, extVars>>

\* line 265-270: the 500 ms timer fires, takes the three listeners off and
\* resolves the promise; the fallback timer stays set
FireQuiet ==
    /\ settlePc = "waiting"
    /\ settleTimer # -1 /\ now >= settleTimer
    /\ listeners' = listeners \ handlersOf(settleCall)
    /\ lateTimers' = lateTimers \cup {<<settleCall, "fallback">>}
    /\ settlePc' = "resolved"
    /\ resolvedBy' = "quiet"
    /\ UNCHANGED <<now, requestCount, responseCount, settleTimer, inFlight, quietSince,
                   settleCall,
                   fnVars, cdpVars, appVars, detVars, authVars, navVars, actVars, extVars>>

\* line 291-296: the fallback timer fires, takes the three listeners off and
\* resolves the promise; a 500 ms timer that is pending stays set
FireFallback ==
    /\ settlePc = "waiting"
    /\ now >= settleTimeout
    /\ listeners' = listeners \ handlersOf(settleCall)
    /\ lateTimers' = (IF settleTimer # -1 THEN lateTimers \cup {<<settleCall, "quiet">>}
                      ELSE lateTimers)
    /\ settlePc' = "resolved"
    /\ resolvedBy' = "timeout"
    /\ UNCHANGED <<now, requestCount, responseCount, settleTimer, inFlight, quietSince,
                   settleCall,
                   fnVars, cdpVars, appVars, detVars, authVars, navVars, actVars, extVars>>

\* line 265-270 or 291-296, after the promise has resolved: the other timer
\* of a call fires, takes that call's listeners off again and resolves again,
\* which does nothing
FireLate ==
    /\ \E timer \in lateTimers :
          /\ listeners' = listeners \ handlersOf(timer[1])
          /\ lateTimers' = lateTimers \ {timer}
    /\ UNCHANGED <<now, requestCount, responseCount, settleTimer, settlePc, resolvedBy,
                   inFlight, quietSince, settleCall,
                   fnVars, cdpVars, appVars, detVars, authVars, navVars, actVars, extVars>>

\* line 254-260: the next waitForDOMSettle call on the same session, with
\* counters and timers of its own
SettleAgain ==
    /\ settlePc = "resolved"
    /\ settleCall < MaxSettles
    /\ settleCall' = settleCall + 1
    /\ now' = 0
    /\ requestCount' = 0
    /\ responseCount' = 0
    /\ settleTimer' = -1
    /\ settlePc' = "idle"
    /\ resolvedBy' = "none"
    /\ quietSince' = -1
    /\ UNCHANGED <<inFlight, listeners, lateTimers,
                   fnVars, cdpVars, appVars, detVars, authVars, navVars, actVars, extVars>>

----------------------------------------------------------------------------
(* initCDP under calls that overlap in time *)

Callers == 1..MaxCallers

\* line 242: a findElements/act/extract call enters initCDP and tests this.cdp
InitCDPCall ==
    /\ \E c \in Callers :
          /\ initPc[c] = "idle"
          /\ IF thisCdp # 0
             THEN /\ initPc' = [initPc EXCEPT ![c] = "returned"]
                  /\ initGot' = [initGot EXCEPT ![c] = thisCdp]
             ELSE /\ initPc' = [initPc EXCEPT ![c] = "newCDPSession"]
                  /\ UNCHANGED initGot
    /\ UNCHANGED <<sessionsCreated, thisCdp, fnVars, settleVars, appVars,
                   detVars, authVars, navVars, actVars, extVars>>

\* line 243: the awaited newCDPSession settles and its session is assigned
InitCDPCreated ==
    /\ \E c \in Callers, ok \in BOOLEAN :
          /\ initPc[c] = "newCDPSession"
          /\ IF ok
             THEN /\ sessionsCreated' = sessionsCreated + 1
                  /\ thisCdp' = sessionsCreated + 1
                  /\ initPc' = [initPc EXCEPT ![c] = "DOM.enable"]
             ELSE /\ initPc' = [initPc EXCEPT ![c] = "threw"]
                  /\ UNCHANGED <<sessionsCreated, thisCdp>>
    /\ UNCHANGED <<initGot, fnVars, settleVars, appVars, detVars, authVars, navVars, actVars, extVars>>

\* the await that follows each of the three enable calls of line 244-246
afterEnable(pc) ==
    CASE pc = "DOM.enable" -> "Accessibility.enable"
      [] pc = "Accessibility.enable" -> "Runtime.enable"
      [] OTHER -> "returned"

\* line 244-248: one of the three enable calls settles; after the last one
\* initCDP returns this.cdp
InitCDPEnabled ==
    /\ \E c \in Callers, ok \in BOOLEAN :
          /\ initPc[c] \in {"DOM.enable", "Accessibility.enable", "Runtime.enable"}
          /\ IF ok
             THEN /\ initPc' = [initPc EXCEPT ![c] = afterEnable(initPc[c])]
                  /\ initGot' = [initGot EXCEPT ![c] =
                                    IF initPc[c] = "Runtime.enable" THEN thisCdp ELSE @]
             ELSE /\ initPc' = [initPc EXCEPT ![c] = "threw"]
                  /\ UNCHANGED initGot
    /\ UNCHANGED <<sessionsCreated, thisCdp, fnVars, settleVars, appVars,
                   detVars, authVars, navVars, actVars, extVars>>

\* the caller goes on to a later call on the same navigator
InitCDPNextCall ==
    /\ \E c \in Callers :
          /\ initPc[c] \in {"returned", "threw"}
          /\ initPc' = [initPc EXCEPT ![c] = "idle"]
    /\ UNCHANGED <<sessionsCreated, thisCdp, initGot, fnVars, settleVars, appVars,
                   detVars, authVars, navVars, actVars, extVars>>

----------------------------------------------------------------------------
(* filterMeaningfulNodes *)

NOISE_ROLES == {"generic", "presentation", "none", "InlineTextBox", "LineBreak", "StaticText"}

ALWAYS_INCLUDE_ROLES ==
    {"button", "link", "textbox", "combobox", "checkbox", "radio", "searchbox",
     "menuitem", "tab", "option", "slider", "spinbutton",
     "heading", "article", "section", "main", "navigation", "banner", "contentinfo",
     "list", "listitem", "table", "row", "cell", "columnheader", "rowheader",
     "form", "group", "region", "landmark",
     "text", "paragraph", "document", "application",
     "RootWebArea", "WebArea"}

\* String.prototype.trim on a sequence of characters
RECURSIVE trimStart(_)
trimStart(str) ==
    IF str # <<>> /\ Head(str) = " " THEN trimStart(Tail(str)) ELSE str

RECURSIVE trimEnd(_)
trimEnd(str) ==
    IF str # <<>> /\ str[Len(str)] = " " THEN trimEnd(SubSeq(str, 1, Len(str) - 1)) ELSE str

trim(str) == trimEnd(trimStart(str))

\* a plausible slip: text and properties are looked at before the noise roles
shouldInclude_NoiseLast(node) ==
    IF \E i \in 1..Len(node.properties) :
            node.properties[i].name \in {"focusable", "clickable", "editable"}
            /\ node.properties[i].value
    THEN TRUE
    ELSE IF Len(trim(node.name)) > 2 \/ Len(trim(node.value)) > 2 THEN TRUE
    ELSE IF node.role \in NOISE_ROLES THEN FALSE
    ELSE IF node.role \in ALWAYS_INCLUDE_ROLES THEN TRUE
    ELSE Len(node.childIds) > 0

\* shouldInclude, line 531-563
shouldInclude(node) ==
    IF node.role \in NOISE_ROLES THEN FALSE
    ELSE IF node.role \in ALWAYS_INCLUDE_ROLES THEN TRUE
    ELSE IF \E i \in 1..Len(node.properties) :
                 node.properties[i].name \in {"focusable", "clickable", "editable"}
                 /\ node.properties[i].value
    THEN TRUE
    ELSE IF Len(trim(node.name)) > 2 \/ Len(trim(node.value)) > 2 THEN TRUE
    ELSE Len(node.childIds) > 0

\* accessibility nodes as Accessibility.getFullAXTree reports them; a node
\* without role has role "undefined"
AXRoles == {"generic", "StaticText", "LineBreak", "button", "image", "undefined"}
AXProperties ==
    { <<>>,
      <<[name |-> "focusable", value |-> TRUE]>>,
      <<[name |-> "editable", value |-> FALSE]>>,
      <<[name |-> "required", value |-> TRUE], [name |-> "clickable", value |-> TRUE]>> }
AXNames == { <<>>, <<"O", "K">>, <<" ", "O", "K", " ">>, <<"A", "d", "d">>, <<" ", " ", " ">> }
AXValues == { <<>>, <<"4", "2">>, <<"a", " ", "b">> }
AXNodes ==
    [role : AXRoles, properties : AXProperties, name : AXNames, value : AXValues,
     childIds : {<<>>, <<2>>}]

\* line 566: nodes.filter(shouldInclude), for one node
ShouldInclude ==
    /\ fnName = "shouldInclude" /\ fnPc = "input"
    /\ fnResult' = shouldInclude(fnArgs)
    /\ fnPc' = "returned"
    /\ UNCHANGED <<fnName, fnArgs, settleVars, cdpVars, appVars, detVars, authVars, navVars, actVars,
                   extVars>>

\* the ids in S from i on, ascending
RECURSIVE idsFrom(_, _)
idsFrom(S, i) ==
    IF i > MaxNodes THEN <<>>
    ELSE (IF i \in S THEN <<i>> ELSE <<>>) \o idsFrom(S, i + 1)

\* the kinds of node a tree is made of: a noise node with a name, an
\* allow-listed node, a node that nothing but its children can keep, and a
\* node kept for its name
AXTreeKinds ==
    { [role |-> "generic", name |-> <<"A", "d", "d">>],
      [role |-> "button", name |-> <<>>],
      [role |-> "image", name |-> <<>>],
      [role |-> "undefined", name |-> <<"A", "d", "d">>] }

\* the node lists of Accessibility.getFullAXTree: every forest of up to MaxNodes
\* nodes, parents listed before their children, childIds naming the children
AXForests ==
    UNION { { [i \in 1..n |->
                  [nodeId |-> i, role |-> kind[i].role, properties |-> <<>>,
                   name |-> kind[i].name, value |-> <<>>,
                   childIds |-> idsFrom({j \in 1..n : parent[j] = i}, 1)]] :
              kind \in [1..n -> AXTreeKinds],
              parent \in {f \in [1..n -> 0..(n - 1)] : \A i \in 1..n : f[i] < i} } :
            n \in 0..MaxNodes }

hasNodeId(nodes, id) == \E k \in 1..Len(nodes) : nodes[k].nodeId = id
nodeMapGet(nodes, id) == nodes[CHOOSE k \in 1..Len(nodes) : nodes[k].nodeId = id]

\* a plausible slip: the rebuilt node lists only the children that were kept
RECURSIVE rebuildRelationships_PrunesChildIds(_, _, _)
rebuildRelationships_PrunesChildIds(node, nodes, filtered) ==
    LET kept == SelectSeq(node.childIds,
                          LAMBDA id : hasNodeId(nodes, id) /\ hasNodeId(filtered, id))
    IN  [f \in DOMAIN node \cup {"children"} |->
            IF f = "children"
            THEN [k \in 1..Len(kept) |->
                     rebuildRelationships_PrunesChildIds(nodeMapGet(nodes, kept[k]),
                                                         nodes, filtered)]
            ELSE IF f = "childIds" THEN kept
            ELSE node[f]]

\* rebuildRelationships, line 569-585: the node with a children array of its
\* kept children, rebuilt in turn; childIds stays as it was
RECURSIVE rebuildRelationships(_, _, _)
rebuildRelationships(node, nodes, filtered) ==
    LET kept == SelectSeq(node.childIds,
                          LAMBDA id : hasNodeId(nodes, id) /\ hasNodeId(filtered, id))
    IN  [f \in DOMAIN node \cup {"children"} |->
            IF f = "children"
            THEN [k \in 1..Len(kept) |->
                     rebuildRelationships(nodeMapGet(nodes, kept[k]), nodes, filtered)]
            ELSE node[f]]

\* a plausible slip: a root is a kept node that no node at all lists as a child
filterMeaningfulNodes_RawRoots(nodes) ==
    LET filtered == SelectSeq(nodes, shouldInclude)
        rootNodes == SelectSeq(filtered, LAMBDA node :
                         ~\E k \in 1..Len(nodes) :
                             \E c \in 1..Len(nodes[k].childIds) :
                                 nodes[k].childIds[c] = node.nodeId)
    IN  [r \in 1..Len(rootNodes) |-> rebuildRelationships(rootNodes[r], nodes, filtered)]

\* filterMeaningfulNodes, line 497-595
filterMeaningfulNodes(nodes) ==
    LET filtered == SelectSeq(nodes, shouldInclude)
        rootNodes == SelectSeq(filtered, LAMBDA node :
                         ~\E k \in 1..Len(filtered) :
                             \E c \in 1..Len(filtered[k].childIds) :
                                 filtered[k].childIds[c] = node.nodeId)
    IN  [r \in 1..Len(rootNodes) |-> rebuildRelationships(rootNodes[r], nodes, filtered)]

\* the nodes of a returned forest, parents before children, without their
\* children arrays
RECURSIVE flattenNodes(_)
flattenNodes(forest) ==
    IF forest = <<>> THEN <<>>
    ELSE <<[f \in DOMAIN Head(forest) \ {"children"} |-> Head(forest)[f]]>>
         \o flattenNodes(Head(forest).children)
         \o flattenNodes(Tail(forest))

\* formatAccessibilityTree line 681: this.filterMeaningfulNodes(nodes)
FilterMeaningfulNodes ==
    /\ fnName = "filterMeaningfulNodes" /\ fnPc = "input"
    /\ fnResult' = filterMeaningfulNodes(fnArgs)
    /\ fnPc' = "returned"
    /\ UNCHANGED <<fnName, fnArgs, settleVars, cdpVars, appVars, detVars, authVars, navVars, actVars,
                   extVars>>

----------------------------------------------------------------------------
(* formatAccessibilityTree and the ids findElements resolves *)

\* name.replace(/\s+/g, ' ')
RECURSIVE collapseSpaces(_)
collapseSpaces(str) ==
    IF str = <<>> THEN <<>>
    ELSE IF Head(str) = " " /\ Len(str) > 1 /\ str[2] = " " THEN collapseSpaces(Tail(str))
    ELSE <<Head(str)>> \o collapseSpaces(Tail(str))

\* line 645-668: the line of one node: indent, [nodeId], role, the cleaned
\* value or else the cleaned name, and the important properties
formatLine(node, depth) ==
    LET cleanName == trim(collapseSpaces(node.name))
        cleanValue == trim(collapseSpaces(node.value))
    IN  [indent |-> depth,
         nodeId |-> node.nodeId,
         role |-> IF node.role = "undefined" THEN "generic" ELSE node.role,
         displayText |-> IF cleanValue # <<>> THEN cleanValue ELSE cleanName,
         importantProps |-> SelectSeq(node.properties, LAMBDA prop :
             prop.name \in {"required", "disabled", "checked", "selected", "expanded"})]

\* formatNode, line 628-683: the node's line, then its children one level deeper
RECURSIVE formatNode(_, _)
RECURSIVE formatChildren(_, _)
formatNode(node, depth) ==
    <<formatLine(node, depth)>> \o formatChildren(node.children, depth + 1)

formatChildren(children, depth) ==
    IF children = <<>> THEN <<>>
    ELSE formatNode(Head(children), depth) \o formatChildren(Tail(children), depth)

\* line 710-717: the meaningful nodes that are no child of a meaningful node,
\* each formatted at depth 0, joined
formatRoots(meaningfulNodes) ==
    LET rootNodes == SelectSeq(meaningfulNodes, LAMBDA node :
                         ~\E k \in 1..Len(meaningfulNodes) :
                             \E c \in 1..Len(meaningfulNodes[k].children) :
                                 meaningfulNodes[k].children[c].nodeId = node.nodeId)
    IN  formatChildren(rootNodes, 0)

\* formatAccessibilityTree, line 599-718: the id map over all the nodes it is
\* given, and the lines of the filtered tree
formatAccessibilityTree(nodes) ==
    [nodeIdToBackendId |-> buildMappingsOver(1..MaxNodes, nodes),
     tree |-> formatRoots(filterMeaningfulNodes(nodes))]

\* the backendDOMNodeId of the DOM node behind the accessibility node
backendOf(nodeId) == 10 + nodeId

\* the node list of Accessibility.getFullAXTree with each node's backendDOMNodeId
withBackendIds(forest) ==
    [i \in 1..Len(forest) |->
        [nodeId |-> forest[i].nodeId, backendDOMNodeId |-> backendOf(forest[i].nodeId),
         role |-> forest[i].role, properties |-> forest[i].properties,
         name |-> forest[i].name, value |-> forest[i].value,
         childIds |-> forest[i].childIds]]

\* line 331-334: buildElementMappings, which leaves out the nodes behind which
\* there is no DOM element or whose resolution failed, and
\* formatAccessibilityTree, on the nodes of a snapshot
FormatAccessibilityTree ==
    /\ fnName = "findElements" /\ fnPc = "input"
    /\ \E unmapped \in {{}} \cup {{backendOf(i)} : i \in 1..Len(fnArgs)} :
          LET nodes == withBackendIds(fnArgs)
              formatted == formatAccessibilityTree(nodes)
          IN  fnResult' =
                [tree |-> formatted.tree,
                 nodeIdToBackendId |-> formatted.nodeIdToBackendId,
                 elementMappings |->
                     [b \in {backendOf(i) : i \in 1..MaxNodes} |->
                         IF b \notin unmapped
                            /\ \E k \in 1..Len(nodes) : nodes[k].backendDOMNodeId = b
                         THEN 1 ELSE 0],
                 named |-> 0,
                 foundElements |-> <<>>]
    /\ fnPc' = "formatted"
    /\ UNCHANGED <<fnName, fnArgs, settleVars, cdpVars, appVars, detVars, authVars, navVars,
                   actVars, extVars>>

\* line 757-804: the LLM's response names a node id, which findElements
\* looks up in the two maps
ResolveNamed ==
    /\ fnName = "findElements" /\ fnPc = "formatted"
    /\ \E nodeId \in 1..MaxNodes :
          fnResult' =
             [fnResult EXCEPT
                 !.named = nodeId,
                 !.foundElements =
                     mapElements(<<[nodeId |-> nodeId, confidence |-> 9]>>,
                                 fnResult.nodeIdToBackendId, fnResult.elementMappings,
                                 [b \in DOMAIN fnResult.elementMappings |-> TRUE])]
    /\ fnPc' = "returned"
    /\ UNCHANGED <<fnName, fnArgs, settleVars, cdpVars, appVars, detVars, authVars, navVars,
                   actVars, extVars>>

----------------------------------------------------------------------------
(* the XPath of an ElementMapping *)

\* where an element is: for it and each of its ancestors, root first, the tag
\* name and the number of preceding siblings with that tag name
ElementTags == { <<"D", "I", "V">>, <<"A">> }
ElementSteps == [tagName : ElementTags, index : 0..MaxPreceding]
ElementLocations == SeqsUpTo(ElementSteps, MaxDepth) \ {<<>>}

\* '' + number, for one digit
digit(n) == <<"0", "1", "2", "3", "4", "5", "6", "7", "8", "9">>[n + 1]

\* line 436: index > 0 ? '[' + (index + 1) + ']' : ''
position(index) == IF index > 0 THEN <<"[", digit(index + 1), "]">> ELSE <<>>

\* line 426-440, the function run in the page by buildElementMappings: from
\* the element up to the root, path = '/' + tagName + position + path
RECURSIVE inPageXPath(_)
inPageXPath(location) ==
    IF location = <<>> THEN <<>>
    ELSE inPageXPath(SubSeq(location, 1, Len(location) - 1))
         \o <<"/">> \o toLowerCase(location[Len(location)].tagName)
         \o position(location[Len(location)].index)

\* line 470-475 and 778-782: the xpath of the ElementMapping, which becomes
\* FoundElement.xpath and, after 'xpath=', FoundElement.selector
ElementXPath ==
    /\ fnName = "xpath" /\ fnPc = "input"
    /\ fnResult' = [xpath |-> inPageXPath(fnArgs),
                    selector |-> <<"x", "p", "a", "t", "h", "=">> \o inPageXPath(fnArgs)]
    /\ fnPc' = "returned"
    /\ UNCHANGED <<fnName, fnArgs, settleVars, cdpVars, appVars, detVars, authVars, navVars, actVars,
                   extVars>>

----------------------------------------------------------------------------
(* JobSearchService.searchJobs and searchSingleBoard *)

BoardNames == <<"linkedin", "indeed", "glassdoor">>

\* what extractJobs returns: it catches the errors of page.extract and returns []
JobLists == { <<>>, <<"job">> }

\* line 57 / 64: results.push({ board: board.name, jobs })
pushResult(results, board, jobs) == Append(results, [board |-> board, jobs |-> jobs])

\* the state of AuthFlowManager between two checkAndHandleAuth calls
authIdle ==
    /\ authPc' = "idle"
    /\ authRet' = "none"
    /\ elapsed' = 0
    /\ saveSessionCalls' = 0
    /\ authLog' = <<>>
    /\ pollCount' = 0
    /\ falsePolls' = 0
    /\ firstFalseAt' = -1
    /\ initialDetect' = "none"
    /\ lastObserve' = "none"
    /\ lastDetect' = FALSE
    /\ deadlineSeen' = FALSE

\* line 39-47: searchJobs is called with a list of boards
SearchJobs ==
    /\ svcPc = "idle"
    /\ \E n \in 0..MaxBoards : svcBoards' = SubSeq(BoardNames, 1, n)
    /\ svcIdx' = 1
    /\ svcResults' = <<>>
    /\ svcPc' = "loop"
    /\ UNCHANGED <<svcCalls, svcFailed, authVars, notSvc>>

\* line 49-51 and 79-84: the next board, if any, and the start of its
\* searchSingleBoard; line 68 when there is none
SearchNextBoard ==
    /\ svcPc = "loop"
    /\ IF svcIdx <= Len(svcBoards)
       THEN /\ svcPc' = "auth"
            /\ svcCalls' = <<>>
       ELSE /\ svcPc' = "returned"
            /\ UNCHANGED svcCalls
    /\ UNCHANGED <<svcBoards, svcIdx, svcResults, svcFailed, authVars, notSvc>>

\* line 58-65 a plausible slip: the error of one board ends the loop
boardFailed_Aborts ==
    /\ svcResults' = pushResult(svcResults, svcBoards[svcIdx], <<>>)
    /\ svcFailed' = svcFailed \cup {svcIdx}
    /\ svcIdx' = svcIdx + 1
    /\ svcPc' = "returned"

\* line 102-105 and 58-65: searchSingleBoard rethrows, searchJobs catches,
\* pushes an entry without jobs and goes on with the next board
boardFailed ==
    /\ svcResults' = pushResult(svcResults, svcBoards[svcIdx], <<>>)
    /\ svcFailed' = svcFailed \cup {svcIdx}
    /\ svcIdx' = svcIdx + 1
    /\ svcPc' = "loop"

\* line 84: the steps of checkAndHandleAuth while searchSingleBoard awaits it
SearchAuth ==
    /\ svcPc = "auth"
    /\ \/ AuthStart
       \/ AuthGoto
       \/ AuthInitialDetect
       \/ AuthLoopCheck
       \/ AuthSleep
       \/ AuthPoll
       \/ AuthSave

\* a plausible slip: the result of checkAndHandleAuth is not tested
SearchAuthReturned_Unchecked ==
    /\ svcPc = "auth"
    /\ authPc \in {"done", "threw"}
    /\ svcCalls' = Append(svcCalls, <<"checkAndHandleAuth", authRet>>)
    /\ IF authRet \in {"true", "false"}
       THEN /\ svcPc' = "navigate"
            /\ UNCHANGED <<svcIdx, svcResults, svcFailed>>
       ELSE boardFailed
    /\ authIdle
    /\ UNCHANGED <<svcBoards, notSvc>>

\* line 84-92: checkAndHandleAuth has returned or thrown
SearchAuthReturned ==
    /\ svcPc = "auth"
    /\ authPc \in {"done", "threw"}
    /\ svcCalls' = Append(svcCalls, <<"checkAndHandleAuth", authRet>>)
    /\ IF authRet = "true"
       THEN /\ svcPc' = "navigate"
            /\ UNCHANGED <<svcIdx, svcResults, svcFailed>>
       ELSE boardFailed
    /\ authIdle
    /\ UNCHANGED <<svcBoards, notSvc>>

\* line 95: navigateToSearchPage, whose page.goto / page.act may reject
SearchNavigate ==
    /\ svcPc = "navigate"
    /\ svcCalls' = Append(svcCalls, <<"navigateToSearchPage", "-">>)
    /\ \E ok \in BOOLEAN :
          IF ok
          THEN /\ svcPc' = "search"
               /\ UNCHANGED <<svcIdx, svcResults, svcFailed>>
          ELSE boardFailed
    /\ UNCHANGED <<svcBoards, authVars, notSvc>>

\* line 98: performSearch, whose page.act / waitForLoadState may reject
SearchPerform ==
    /\ svcPc = "search"
    /\ svcCalls' = Append(svcCalls, <<"performSearch", "-">>)
    /\ \E ok \in BOOLEAN :
          IF ok
          THEN /\ svcPc' = "extract"
               /\ UNCHANGED <<svcIdx, svcResults, svcFailed>>
          ELSE boardFailed
    /\ UNCHANGED <<svcBoards, authVars, notSvc>>

\* line 101 and 57: extractJobs returns the jobs, searchJobs pushes them
SearchExtract ==
    /\ svcPc = "extract"
    /\ svcCalls' = Append(svcCalls, <<"extractJobs", "-">>)
    /\ \E jobs \in JobLists : svcResults' = pushResult(svcResults, svcBoards[svcIdx], jobs)
    /\ svcIdx' = svcIdx + 1
    /\ svcPc' = "loop"
    /\ UNCHANGED <<svcBoards, svcFailed, authVars, notSvc>>

----------------------------------------------------------------------------
(* LinkedInAIStrategy.search and fillSearchForm *)
\* The navigator's act() returns true or false and never throws; the calls
\* made on it are recorded with what they returned.

navigatorCall(calls, name, result) == Append(calls, <<name, result>>)

\* line 19-25: search() is called; the navigator is created before the try
StratSearch ==
    /\ stratPc = "idle"
    /\ stratParams' \in [keywords : BOOLEAN, location : BOOLEAN]
    /\ stratPc' = "checkAuth"
    /\ UNCHANGED <<stratCalls, stratErr, stratRet, navVars, notStrat>>

\* line 29-32 a plausible slip: missing authentication returns before the try
StratCheckAuth_BeforeTry ==
    /\ stratPc = "checkAuth"
    /\ \E isAuthenticated \in {"true", "false", "threw"} :
          IF isAuthenticated = "true"
          THEN stratPc' = "navigate" /\ UNCHANGED <<stratErr, stratRet>>
          ELSE /\ stratPc' = "threw"
               /\ stratRet' = "threw"
               /\ stratErr' = (IF isAuthenticated = "false"
                               THEN "LinkedIn authentication required" ELSE "checkAuth")
    /\ UNCHANGED <<stratParams, stratCalls, navVars, notStrat>>

\* line 29-32 and 70-84: checkAuth, whose page.content() may reject
StratCheckAuth ==
    /\ stratPc = "checkAuth"
    /\ \E isAuthenticated \in {"true", "false", "threw"} :
          IF isAuthenticated = "true"
          THEN stratPc' = "navigate" /\ UNCHANGED stratErr
          ELSE /\ stratPc' = "finally"
               /\ stratErr' = (IF isAuthenticated = "false"
                               THEN "LinkedIn authentication required" ELSE "checkAuth")
    /\ UNCHANGED <<stratParams, stratCalls, stratRet, navVars, notStrat>>

\* line 35 and 86-90: navigateToSearch, whose page.goto may reject;
\* line 38 and 95-102: fillSearchForm begins
StratNavigate ==
    /\ stratPc = "navigate"
    /\ \E ok \in BOOLEAN :
          IF ok
          THEN /\ stratPc' = (IF stratParams.keywords THEN "combined" ELSE "location")
               /\ UNCHANGED stratErr
          ELSE stratPc' = "finally" /\ stratErr' = "navigateToSearch"
    /\ UNCHANGED <<stratParams, stratCalls, stratRet, navVars, notStrat>>

\* line 106-110: the combined click-and-type act()
StratCombined ==
    /\ stratPc = "combined"
    /\ \E searchSuccess \in BOOLEAN :
          /\ stratCalls' = navigatorCall(stratCalls, "act:click and type", searchSuccess)
          /\ stratPc' = (IF searchSuccess THEN "enter" ELSE "click")
    /\ UNCHANGED <<stratParams, stratErr, stratRet, navVars, notStrat>>

\* a plausible slip: a failed click is logged and the form filling goes on
StratClick_GoesOn ==
    /\ stratPc = "click"
    /\ \E clickSuccess \in BOOLEAN :
          /\ stratCalls' = navigatorCall(stratCalls, "act:click", clickSuccess)
          /\ stratPc' = (IF clickSuccess THEN "type" ELSE "enter")
          /\ UNCHANGED stratErr
    /\ UNCHANGED <<stratParams, stratRet, navVars, notStrat>>

\* line 115-124: the click-only act() of the fallback
StratClick ==
    /\ stratPc = "click"
    /\ \E clickSuccess \in BOOLEAN :
          /\ stratCalls' = navigatorCall(stratCalls, "act:click", clickSuccess)
          /\ IF clickSuccess
             THEN stratPc' = "type" /\ UNCHANGED stratErr
             ELSE stratPc' = "finally" /\ stratErr' = "Failed to find search field"
    /\ UNCHANGED <<stratParams, stratRet, navVars, notStrat>>

\* line 120-121: waitForTimeout(500), which may reject, then the type act(),
\* whose result is not looked at
StratType ==
    /\ stratPc = "type"
    /\ \E waited \in BOOLEAN :
          IF waited
          THEN /\ \E typed \in BOOLEAN :
                     stratCalls' = navigatorCall(stratCalls, "act:type", typed)
               /\ stratPc' = "enter"
               /\ UNCHANGED stratErr
          ELSE /\ stratPc' = "finally"
               /\ stratErr' = "waitForTimeout"
               /\ UNCHANGED stratCalls
    /\ UNCHANGED <<stratParams, stratRet, navVars, notStrat>>

\* line 128-133: waitForTimeout(500), then 'Press Enter to submit', whose
\* failure is only logged
StratEnter ==
    /\ stratPc = "enter"
    /\ \E waited \in BOOLEAN :
          IF waited
          THEN /\ \E submitSuccess \in BOOLEAN :
                     stratCalls' = navigatorCall(stratCalls, "act:press Enter", submitSuccess)
               /\ stratPc' = "location"
               /\ UNCHANGED stratErr
          ELSE /\ stratPc' = "finally"
               /\ stratErr' = "waitForTimeout"
               /\ UNCHANGED stratCalls
    /\ UNCHANGED <<stratParams, stratRet, navVars, notStrat>>

\* line 137-146: the location act(), if a location is given, whose failure is
\* only logged
StratLocation ==
    /\ stratPc = "location"
    /\ IF stratParams.location
       THEN \E locationSuccess \in BOOLEAN :
               stratCalls' = navigatorCall(stratCalls, "act:location", locationSuccess)
       ELSE UNCHANGED stratCalls
    /\ stratPc' = "results"
    /\ UNCHANGED <<stratParams, stratErr, stratRet, navVars, notStrat>>

\* line 155-167: the wait for the results page; when the race rejects, the
\* waitForTimeout(3000) of the catch may reject too
StratResults ==
    /\ stratPc = "results"
    /\ \E ok \in BOOLEAN :
          IF ok
          THEN stratPc' = "extract" /\ UNCHANGED stratErr
          ELSE stratPc' = "finally" /\ stratErr' = "waitForTimeout"
    /\ UNCHANGED <<stratParams, stratCalls, stratRet, navVars, notStrat>>

\* line 41 and 172-248: extractJobs catches what its body throws and
\* returns the jobs or []
StratExtract ==
    /\ stratPc = "extract"
    /\ \E extracted \in {"data", "null", "threw"} :
          stratCalls' = navigatorCall(stratCalls, "extract", extracted)
    /\ stratPc' = "finally"
    /\ UNCHANGED <<stratParams, stratErr, stratRet, navVars, notStrat>>

\* line 42-47: the finally block awaits navigator.cleanup(), whose
\* saveFixtures may reject; then search() returns or rejects
StratFinally ==
    /\ stratPc = "finally"
    /\ cleanup
    /\ \E cleaned \in BOOLEAN :
          /\ stratCalls' = navigatorCall(stratCalls, "cleanup", cleaned)
          /\ IF cleaned /\ stratErr = "none"
             THEN stratPc' = "returned" /\ stratRet' = "jobs"
             ELSE stratPc' = "threw" /\ stratRet' = "threw"
    /\ UNCHANGED <<stratParams, stratErr, notStrat>>

----------------------------------------------------------------------------
(* The progress event stream: GET and sendProgressUpdate of route.ts *)
\* Both functions are synchronous; the start() of the stream runs inside the
\* ReadableStream constructor and cancel() when the server learns that the
\* client has left.

Connections == 1..MaxClients

\* line 78-82 and 92-96: { type: 'progress', timestamp, ...update }
progressMessage(n) == [type |-> "progress", update |-> n]

\* line 20-58: a client connects: the controller is stored, 'connected' and
\* the pending updates are enqueued, the pending updates are deleted
SseGet ==
    /\ \E c \in Connections :
          /\ sseClients[c] = "unused"
          /\ \A d \in Connections : d < c => sseClients[d] # "unused"
          /\ progressConnections' = c
          /\ sseReceived' = [sseReceived EXCEPT
                                ![c] = <<[type |-> "connected", update |-> 0]>>
                                       \o progressUpdates]
          /\ sseClients' = [sseClients EXCEPT ![c] = "open"]
    /\ progressUpdates' = <<>>
    /\ UNCHANGED <<sseSent, notSse>>

\* the client of a connection leaves; the server has not run cancel() yet
SseClientLeaves ==
    /\ \E c \in Connections :
          /\ sseClients[c] = "open"
          /\ sseClients' = [sseClients EXCEPT ![c] = "gone"]
    /\ UNCHANGED <<progressConnections, progressUpdates, sseReceived, sseSent, notSse>>

\* line 51-54: cancel() of the stream of a client that left deletes the
\* session's entry, whichever controller it holds
SseCancel ==
    /\ \E c \in Connections :
          /\ sseClients[c] = "gone"
          /\ sseClients' = [sseClients EXCEPT ![c] = "cancelled"]
    /\ progressConnections' = 0
    /\ UNCHANGED <<progressUpdates, sseReceived, sseSent, notSse>>

\* line 61-99: sendProgressUpdate; enqueue on the stream of a client that
\* has left either queues the chunk for nobody or throws
SendProgressUpdate ==
    /\ sseSent < MaxUpdates
    /\ sseSent' = sseSent + 1
    /\ LET controller == progressConnections
           message == progressMessage(sseSent + 1)
       IN  IF controller # 0
           THEN /\ UNCHANGED progressUpdates
                /\ IF sseClients[controller] = "open"
                   THEN /\ sseReceived' = [sseReceived EXCEPT
                                             ![controller] = Append(@, message)]
                        /\ UNCHANGED progressConnections
                   ELSE /\ UNCHANGED sseReceived
                        /\ \E threw \in BOOLEAN :
                              progressConnections' = (IF threw THEN 0 ELSE controller)
           ELSE /\ progressUpdates' = Append(progressUpdates, message)
                /\ UNCHANGED <<progressConnections, sseReceived>>
    /\ UNCHANGED <<sseClients, notSse>>

----------------------------------------------------------------------------
(* runJobSearch of run.ts and the console interception of the file logger *)
\* One action per stretch of runJobSearch between two awaits.

Runs == 1..MaxRuns
SessionIds == 1..MaxSessions
Keywords == {"", "engineer"}

\* part_010 line 83-121: interceptConsole as an effect on the module state
interceptConsole(sessionId) ==
    IF isIntercepted /\ currentSessionId = sessionId
    THEN UNCHANGED <<isIntercepted, currentSessionId, consoleMethods>>
    ELSE /\ currentSessionId' = sessionId
         /\ isIntercepted' = TRUE
         /\ consoleMethods' = sessionId

\* part_010 line 124-134: restoreConsole
restoreConsole ==
    IF ~isIntercepted
    THEN UNCHANGED <<isIntercepted, currentSessionId, consoleMethods>>
    ELSE /\ consoleMethods' = 0
         /\ isIntercepted' = FALSE
         /\ currentSessionId' = 0

\* part_010 line 137-163: createFileLogger starts intercepting the console
createFileLogger(sessionId) == interceptConsole(sessionId)

\* a return statement of call r on the path named ret
runReturn(r, ret) ==
    /\ runPc' = [runPc EXCEPT ![r] = "returned"]
    /\ runRet' = [runRet EXCEPT ![r] = ret]

runGoto(r, pc) ==
    /\ runPc' = [runPc EXCEPT ![r] = pc]
    /\ UNCHANGED runRet

\* run.ts line 34-58: the call, createFileLogger, the keywords validation
RunJobSearch ==
    /\ \E r \in Runs, sessionId \in SessionIds, keywords \in Keywords :
          /\ runPc[r] = "idle"
          /\ \A q \in Runs : q < r => runPc[q] # "idle"
          /\ runSessionId' = [runSessionId EXCEPT ![r] = sessionId]
          /\ runKeywords' = [runKeywords EXCEPT ![r] = keywords]
          /\ createFileLogger(sessionId)
          /\ IF keywords = ""
             THEN runReturn(r, "emptyKeywords")
             ELSE runGoto(r, "hasLinkedInSession")
    /\ UNCHANGED notRun

\* run.ts line 58-70: hasLinkedInSession resolves
RunHasSession ==
    /\ \E r \in Runs, hasSession \in BOOLEAN :
          /\ runPc[r] = "hasLinkedInSession"
          /\ IF ~hasSession
             THEN runReturn(r, "noSession")
             ELSE runGoto(r, "loadLinkedInSession")
    /\ UNCHANGED <<runSessionId, runKeywords, isIntercepted, currentSessionId,
                   consoleMethods, notRun>>

\* run.ts line 70-108: loadLinkedInSession resolves; in the LOCAL environment
\* the Ollama check is awaited next, else the try block is entered
RunLoadSession ==
    /\ \E r \in Runs, local \in BOOLEAN :
          /\ runPc[r] = "loadLinkedInSession"
          /\ runGoto(r, IF local THEN "checkOllamaConnection" ELSE "init")
    /\ UNCHANGED <<runSessionId, runKeywords, isIntercepted, currentSessionId,
                   consoleMethods, notRun>>

\* run.ts line 90-124: checkOllamaConnection resolves
RunOllamaCheck ==
    /\ \E r \in Runs, isAvailable \in BOOLEAN :
          /\ runPc[r] = "checkOllamaConnection"
          /\ IF ~isAvailable
             THEN runReturn(r, "ollamaFailed")
             ELSE runGoto(r, "init")
    /\ UNCHANGED <<runSessionId, runKeywords, isIntercepted, currentSessionId,
                   consoleMethods, notRun>>

\* run.ts line 124-150: browserManager.init() resolves or rejects
RunInit ==
    /\ \E r \in Runs, threw \in BOOLEAN :
          /\ runPc[r] = "init"
          /\ runGoto(r, IF threw THEN "catch" ELSE "searchLinkedInJobs")
    /\ UNCHANGED <<runSessionId, runKeywords, isIntercepted, currentSessionId,
                   consoleMethods, notRun>>

\* run.ts line 150-160: searchLinkedInJobs resolves or rejects
RunSearch ==
    /\ \E r \in Runs, threw \in BOOLEAN :
          /\ runPc[r] = "searchLinkedInJobs"
          /\ runGoto(r, IF threw THEN "catch" ELSE "close")
    /\ UNCHANGED <<runSessionId, runKeywords, isIntercepted, currentSessionId,
                   consoleMethods, notRun>>

\* run.ts line 160-171 and 192-195: browserManager.close() resolves, the
\* result is returned and the finally block runs; or close() rejects
RunClose ==
    /\ \E r \in Runs, threw \in BOOLEAN :
          /\ runPc[r] = "close"
          /\ IF threw
             THEN /\ runGoto(r, "catch")
                  /\ UNCHANGED <<isIntercepted, currentSessionId, consoleMethods>>
             ELSE /\ runReturn(r, "success")
                  /\ restoreConsole
    /\ UNCHANGED <<runSessionId, runKeywords, notRun>>

\* run.ts line 172-195: the catch block closes the browser (its own errors
\* are caught), returns the error, and the finally block runs
RunCatch ==
    /\ \E r \in Runs :
          /\ runPc[r] = "catch"
          /\ runReturn(r, "error")
          /\ restoreConsole
    /\ UNCHANGED <<runSessionId, runKeywords, notRun>>

----------------------------------------------------------------------------
(* Specifications *)

InitAuth ==
    /\ authPc = "idle"
    /\ authRet = "none"
    /\ elapsed = 0
    /\ saveSessionCalls = 0
    /\ authLog = <<>>
    /\ pollCount = 0
    /\ falsePolls = 0
    /\ firstFalseAt = -1
    /\ initialDetect = "none"
    /\ lastObserve = "none"
    /\ lastDetect = FALSE
    /\ deadlineSeen = FALSE

InitNav ==
    /\ cdp = FALSE
    /\ elementMappings = [b \in BackendIds |-> 0]
    /\ nodeIdToBackendId = [i \in NodeIds |-> 0]
    /\ snapshotTaken = FALSE
    /\ snapshotNodes = {}
    /\ mappingFresh = [b \in BackendIds |-> FALSE]
    /\ findPc = "idle"
    /\ findResult = [status |-> "none", elements |-> <<>>]
    /\ actPc = "idle"
    /\ actPlan = <<>>
    /\ actIdx = 0
    /\ actTarget = 0
    /\ actTrace = <<>>
    /\ actError = "none"
    /\ actRet = "none"
    /\ extPc = "idle"
    /\ extRet = "none"

InitFn ==
    /\ fnName = "none"
    /\ fnArgs = <<>>
    /\ fnResult = <<>>
    /\ fnPc = "idle"

InitSettle ==
    /\ now = 0
    /\ requestCount = 0
    /\ responseCount = 0
    /\ settleTimer = -1
    /\ settlePc = "idle"
    /\ resolvedBy = "none"
    /\ inFlight = 0
    /\ quietSince = -1
    /\ settleCall = 1
    /\ listeners = {}
    /\ lateTimers = {}

InitCDP ==
    /\ initPc = [c \in 1..MaxCallers |-> "idle"]
    /\ sessionsCreated = 0
    /\ thisCdp = 0
    /\ initGot = [c \in 1..MaxCallers |-> 0]

InitApp ==
    /\ svcPc = "idle"
    /\ svcBoards = <<>>
    /\ svcIdx = 0
    /\ svcResults = <<>>
    /\ svcCalls = <<>>
    /\ svcFailed = {}
    /\ stratPc = "idle"
    /\ stratParams = [keywords |-> FALSE, location |-> FALSE]
    /\ stratCalls = <<>>
    /\ stratErr = "none"
    /\ stratRet = "none"
    /\ progressConnections = 0
    /\ progressUpdates = <<>>
    /\ sseClients = [c \in 1..MaxClients |-> "unused"]
    /\ sseReceived = [c \in 1..MaxClients |-> <<>>]
    /\ sseSent = 0
    /\ runPc = [r \in 1..MaxRuns |-> "idle"]
    /\ runSessionId = [r \in 1..MaxRuns |-> 0]
    /\ runKeywords = [r \in 1..MaxRuns |-> ""]
    /\ runRet = [r \in 1..MaxRuns |-> "none"]
    /\ isIntercepted = FALSE
    /\ currentSessionId = 0
    /\ consoleMethods = 0

Init ==
    /\ detObservations = <<>>
    /\ detResult = FALSE
    /\ detPc = "input"
    /\ InitAuth
    /\ InitNav
    /\ InitFn
    /\ InitSettle
    /\ InitCDP
    /\ InitApp

\* detectAuthRequired is given every list of observations within the bounds
InitDetect ==
    /\ detObservations \in ObserveResults
    /\ detResult = FALSE
    /\ detPc = "input"
    /\ InitAuth
    /\ InitNav
    /\ InitFn
    /\ InitSettle
    /\ InitCDP
    /\ InitApp

\* the state in which nothing but one helper call happens
InitHelper ==
    /\ detObservations = <<>>
    /\ detResult = FALSE
    /\ detPc = "input"
    /\ InitAuth
    /\ InitNav

InitPick ==
    /\ InitHelper
    /\ InitSettle
    /\ InitCDP
    /\ InitApp
    /\ fnName = "sort"
    /\ fnArgs \in CandidateLists
    /\ fnResult = <<>>
    /\ fnPc = "input"

InitShouldInclude ==
    /\ InitHelper
    /\ InitSettle
    /\ InitCDP
    /\ InitApp
    /\ fnName = "shouldInclude"
    /\ fnArgs \in AXNodes
    /\ fnResult = <<>>
    /\ fnPc = "input"

InitFilter ==
    /\ InitHelper
    /\ InitSettle
    /\ InitCDP
    /\ InitApp
    /\ fnName = "filterMeaningfulNodes"
    /\ fnArgs \in AXForests
    /\ fnResult = <<>>
    /\ fnPc = "input"

InitFormat ==
    /\ InitHelper
    /\ InitSettle
    /\ InitCDP
    /\ InitApp
    /\ fnName = "findElements"
    /\ fnArgs \in AXForests
    /\ fnResult = <<>>
    /\ fnPc = "input"

InitXPath ==
    /\ InitHelper
    /\ InitSettle
    /\ InitCDP
    /\ InitApp
    /\ fnName = "xpath"
    /\ fnArgs \in ElementLocations
    /\ fnResult = <<>>
    /\ fnPc = "input"

NextDetect == DetectCall

NextXPath == ElementXPath

NextFilter == FilterMeaningfulNodes

NextShouldInclude == ShouldInclude

NextPick == PickTarget

NextAuth ==
    \/ AuthStart
    \/ AuthGoto
    \/ AuthInitialDetect
    \/ AuthLoopCheck
    \/ AuthSleep
    \/ AuthPoll
    \/ AuthSave

NextNav ==
    \/ FindElements
    \/ FindSnapshot
    \/ FindLLM
    \/ Cleanup

NextAct ==
    \/ ActStart
    \/ ActNoTarget
    \/ ActFindElements
    \/ ActSnapshot
    \/ ActResolved
    \/ ActPerform
    \/ ActDelay

NextExtract ==
    \/ ExtractStart
    \/ ExtractFindElements
    \/ FindSnapshot
    \/ FindLLM
    \/ ExtractContent
    \/ ExtractLLM

NextSettle ==
    \/ SettleStart
    \/ OnRequest
    \/ OnResponse
    \/ Tick
    \/ FireQuiet
    \/ FireFallback
    \/ FireLate
    \/ SettleAgain

NextSearch ==
    \/ SearchJobs
    \/ SearchNextBoard
    \/ SearchAuth
    \/ SearchAuthReturned
    \/ SearchNavigate
    \/ SearchPerform
    \/ SearchExtract

NextStrategy ==
    \/ StratSearch
    \/ StratCheckAuth
    \/ StratNavigate
    \/ StratCombined
    \/ StratClick
    \/ StratType
    \/ StratEnter
    \/ StratLocation
    \/ StratResults
    \/ StratExtract
    \/ StratFinally

NextFormat ==
    \/ FormatAccessibilityTree
    \/ ResolveNamed

NextProgress ==
    \/ SseGet
    \/ SseClientLeaves
    \/ SseCancel
    \/ SendProgressUpdate

NextRun ==
    \/ RunJobSearch
    \/ RunHasSession
    \/ RunLoadSession
    \/ RunOllamaCheck
    \/ RunInit
    \/ RunSearch
    \/ RunClose
    \/ RunCatch

NextCDP ==
    \/ InitCDPCall
    \/ InitCDPCreated
    \/ InitCDPEnabled
    \/ InitCDPNextCall

Next ==
    \/ NextDetect \/ NextAuth \/ NextNav \/ NextAct
    \/ NextPick \/ NextExtract \/ NextSettle \/ NextCDP
    \/ NextShouldInclude \/ NextFilter \/ NextXPath
    \/ NextSearch \/ NextStrategy \/ NextFormat \/ NextProgress \/ NextRun

Spec == Init /\ [][Next]_vars
SpecDetect == InitDetect /\ [][NextDetect]_vars
SpecPick == InitPick /\ [][NextPick]_vars
SpecExtract == Init /\ [][NextExtract]_vars
SpecSettle == Init /\ [][NextSettle]_vars
SpecCDP == Init /\ [][NextCDP]_vars
SpecShouldInclude == InitShouldInclude /\ [][NextShouldInclude]_vars
SpecFilter == InitFilter /\ [][NextFilter]_vars
SpecXPath == InitXPath /\ [][NextXPath]_vars
SpecFormat == InitFormat /\ [][NextFormat]_vars
SpecProgress == Init /\ [][NextProgress]_vars
SpecRun == Init /\ [][NextRun]_vars
SpecSearch == Init /\ [][NextSearch]_vars
SpecStrategy == Init /\ [][NextStrategy]_vars
SpecNav == Init /\ [][NextNav]_vars
SpecAct == Init /\ [][NextAct]_vars
SpecAuth == Init /\ [][NextAuth]_vars
\* every step of the call is an awaited promise that settles: weak fairness on each
SpecAuthLive == Init /\ [][NextAuth]_vars /\ WF_vars(NextAuth)

----------------------------------------------------------------------------
(* Properties of AuthFlowManager *)

Last(seq) == seq[Len(seq)]

AuthReturned == authPc \in {"done", "threw"}
OnWaitingPath == initialDetect = "true"

\* C1: when the initial detectAuthRequired returns true, the statuses passed to
\* onAuthStateChange are exactly checking, required, in-progress, completed if
\* a later poll returns false, and exactly checking, required, in-progress,
\* failed if every poll up to the deadline returns true.
C1_StatusesWithRequired ==
    (authPc = "done" /\ OnWaitingPath) =>
        /\ falsePolls > 0 =>
              authStatuses = <<"checking", "required", "in-progress", "completed">>
        /\ falsePolls = 0 =>
              authStatuses = <<"checking", "required", "in-progress", "failed">>

C2_Outcomes ==
    /\ (authPc \in {"loop", "sleep", "poll"}) => (falsePolls = 0 /\ saveSessionCalls = 0)
    /\ (authPc = "save") => (falsePolls = 1 /\ saveSessionCalls = 0 /\ ~deadlineSeen)
    /\ (AuthReturned /\ OnWaitingPath) =>
          \/ /\ falsePolls = 1 /\ ~deadlineSeen
             /\ saveSessionCalls = 1
             /\ authLog[Len(authLog) - 1].kind = "saveSession"
             /\ Last(authLog) = [kind |-> "status", status |-> "completed"]
             /\ Len(SelectSeq(authLog, LAMBDA e : e.kind = "saveSession")) = 1
             /\ authRet = "true"
          \/ /\ falsePolls = 1 /\ ~deadlineSeen
             /\ saveSessionCalls = 1
             /\ Last(authLog).kind = "saveSession"
             /\ Last(authStatuses) \notin {"completed", "failed"}
             /\ authRet = "threw"
          \/ /\ falsePolls = 0 /\ deadlineSeen
             /\ Last(authStatuses) = "failed"
             /\ authRet = "false"
             /\ saveSessionCalls = 0

C3_AlreadyAuthenticated ==
    (initialDetect = "false") =>
        /\ authPc = "done"
        /\ authStatuses = <<"checking", "completed">>
        /\ authRet = "true"
        /\ pollCount = 0
        /\ saveSessionCalls = 0
        /\ Len(authLog) = 2

C3_Witness == initialDetect = "false" /\ authRet = "true"

\* C4: detectAuthRequired fails closed: when page.observe fails it returns
\* true, on the initial check and on every poll, so that the call whose
\* latest detection failed has neither emitted 'completed' nor returned true.
C4_FailsClosed ==
    (lastObserve = "failed") =>
        /\ lastDetect = TRUE
        /\ authRet # "true"
        /\ \A i \in 1..Len(authStatuses) : authStatuses[i] # "completed"
        /\ authPc \in {"loop", "sleep", "poll", "done"}
        /\ (authPc = "done" => authRet = "false")

C4_Witness == lastObserve = "failed" /\ pollCount >= 1 /\ authPc = "loop"

C26_Terminal == {"completed", "failed"}

\* C26: every call of checkAndHandleAuth that returns has emitted exactly one
\* terminal status (completed or failed), that status is the last one
\* emitted, and the return value is true if and only if it is completed.
C26_OneTerminalStatus ==
    authPc = "done" =>
        /\ authStatuses # <<>>
        /\ Last(authStatuses) \in C26_Terminal
        /\ \A k \in 1..(Len(authStatuses) - 1) : authStatuses[k] \notin C26_Terminal
        /\ (authRet = "true") <=> (Last(authStatuses) = "completed")
        /\ (authRet = "false") <=> (Last(authStatuses) = "failed")

\* the wait timed out: 'checking', 'in-progress', 'failed', and false returned
C26_Witness ==
    /\ authPc = "done"
    /\ authRet = "false"
    /\ authStatuses = <<"checking", "in-progress", "failed">>

----------------------------------------------------------------------------
(* Properties of detectAuthRequired as a function of the observations *)

\* the text the claim speaks of: the lower-cased description plus the
\* lower-cased arguments joined by blanks
C5_Text(obs) ==
    toLowerCase(obs.description) \o <<" ">> \o toLowerCase(joinSpace(obs.arguments))

C5_Contains(text, entry) ==
    \E i, j \in 0..Len(text) : i < j /\ SubSeq(text, i + 1, j) = entry

\* C5: when observe succeeds, detectAuthRequired returns true iff at least one
\* observation's lower-cased description plus lower-cased joined arguments
\* contains an entry of AUTH_INDICATORS; with no observations, or none that
\* contains an entry, it returns false.
C5_LexiconMatch ==
    (detPc = "returned") => detResult =
        (\E k \in 1..Len(detObservations) :
            \E n \in 1..Len(AUTH_INDICATORS) :
                C5_Contains(C5_Text(detObservations[k]), AUTH_INDICATORS[n]))

\* a "Search jobs" element without a match followed by a mixed-case "Sign In"
C5_Witness ==
    /\ Len(detObservations) = 2
    /\ detObservations[1] = [description |-> <<"S", "e", "a", "r", "c", "h", " ", "j", "o", "b", "s">>,
                             arguments |-> <<>>]
    /\ detObservations[2].description = <<"S", "i", "g", "n", " ", "I", "n">>
    /\ detPc = "returned"
    /\ detResult = TRUE

----------------------------------------------------------------------------
(* Properties of AINavigator snapshots and findElements *)

\* C6: findElements never throws: for every internal failure (settle wait,
\* DOM or accessibility-tree protocol calls of the snapshot, LLM error,
\* unparseable or empty response) it returns the empty array.
C6_NeverThrows == findResult.status # "threw"

\* C7: every FoundElement returned by findElements carries an xpath computed
\* during the most recent snapshot for a backend node present in that
\* snapshot; a mapping left over from an earlier snapshot never produces one.
C7_OnlyLatestSnapshot ==
    (findResult.status = "returned") =>
        \A k \in 1..Len(findResult.elements) :
            /\ findResult.elements[k].backendNodeId \in snapshotNodes
            /\ findResult.elements[k].fresh

\* C8: every snapshot clears both maps before rebuilding them, so that after
\* it each map holds entries only for nodes of that snapshot.
C8_MapsHoldLatestOnly ==
    snapshotTaken =>
        /\ \A b \in BackendIds : elementMappings[b] # 0 => b \in snapshotNodes
        /\ \A i \in NodeIds : nodeIdToBackendId[i] # 0 => nodeIdToBackendId[i] \in snapshotNodes

----------------------------------------------------------------------------
(* Properties of act *)

\* what act() does for action i of the plan when nothing fails
C9_Expected(i) ==
    (IF actPlan[i].target THEN <<"findElements">> ELSE <<>>)
    \o pagePrimitives(actPlan[i])
    \o <<"waitForTimeout">>

RECURSIVE C9_ExpectedUpTo(_)
C9_ExpectedUpTo(n) ==
    IF n = 0 THEN <<>>
    ELSE C9_ExpectedUpTo(n - 1) \o [k \in 1..Len(C9_Expected(n)) |-> <<n, C9_Expected(n)[k]>>]

TraceOps == [k \in 1..Len(actTrace) |-> <<actTrace[k].i, actTrace[k].op>>]

IsPrefix(s, t) == Len(s) <= Len(t) /\ SubSeq(t, 1, Len(s)) = s

\* C9: within one act() call the actions are executed strictly in the order
\* of the plan: what act() has done is at every moment an initial part of
\* "resolution, page primitive, 500 ms delay" of action 1, then of action 2,
\* and so on; the resolution of an action begins only when all of that is
\* complete for the actions before it; and a call that returns true has done
\* all of it, each action once.
C9_PlanOrder ==
    /\ IsPrefix(TraceOps, C9_ExpectedUpTo(Len(actPlan)))
    /\ actPc \in {"resolve", "finding"} => TraceOps = C9_ExpectedUpTo(actIdx - 1)
    /\ actRet = "true" => TraceOps = C9_ExpectedUpTo(Len(actPlan))
    /\ \A k \in 1..Len(actTrace) :
          actTrace[k].op = "waitForTimeout" => actTrace[k].arg = 500

\* the plan [click target, type into target] ran to the end
C9_Witness ==
    /\ actRet = "true"
    /\ Len(actPlan) = 2
    /\ actPlan[1].action = "click" /\ actPlan[1].target
    /\ actPlan[2].action = "type" /\ actPlan[2].target
    /\ Len(actTrace) = 8

\* C10: when an action with a target resolves to zero candidates, act()
\* returns false, nothing is done on the page for that action or any later
\* one, and what the earlier actions did remains.
C10_ZeroCandidates ==
    \A k \in 1..Len(actTrace) :
        (actTrace[k].op = "findElements" /\ actTrace[k].arg = 0) =>
            /\ k = Len(actTrace)
            /\ actPc = "done"
            /\ actRet = "false"
            /\ SubSeq(TraceOps, 1, k - 1) = C9_ExpectedUpTo(actTrace[k].i - 1)

\* the second action's target is not found after the first action was performed
C10_Witness ==
    /\ Len(actTrace) >= 3
    /\ Last(actTrace).op = "findElements" /\ Last(actTrace).arg = 0
    /\ Last(actTrace).i = 2
    /\ actTrace[2].op = "click"
    /\ actRet = "false"

\* C11: act() never throws: an exception raised while obtaining the plan,
\* while resolving a target or while performing a page primitive (or by the
\* delay) ends the call there with the return value false and nothing more
\* done of the plan; act() returns true only if no exception was raised and
\* every action of the plan was executed.
C11_NeverThrows ==
    /\ actRet \in {"none", "true", "false"}
    /\ actError # "none" =>
          /\ actPc = "done" /\ actRet = "false"
          /\ IsPrefix(TraceOps, C9_ExpectedUpTo(Len(actPlan)))
          /\ actError = "createCompletion" => actTrace = <<>>
          /\ actError # "createCompletion" => TraceOps # C9_ExpectedUpTo(actIdx)
    /\ actRet = "true" =>
          /\ actError = "none"
          /\ TraceOps = C9_ExpectedUpTo(Len(actPlan))
    /\ actRet = "false" => actError # "none"

\* the second page call of the second action rejects
C11_Witness ==
    /\ actError = "page" /\ actRet = "false"
    /\ actIdx = 2
    /\ actPlan[2].action = "type" /\ actPlan[2].target
    /\ Last(actTrace).op = "click" /\ Last(actTrace).i = 2

\* C12: for an action with a target, act() uses the candidate with the highest
\* confidence among those findElements returned; when several share the
\* highest confidence, the one that comes first in the LLM's response.
C12_HighestFirst ==
    (fnName = "sort" /\ fnPc = "returned") =>
        \E k \in 1..Len(fnArgs) :
            /\ fnResult = fnArgs[k]
            /\ \A j \in 1..Len(fnArgs) : fnArgs[j].confidence <= fnArgs[k].confidence
            /\ \A j \in 1..(k - 1) : fnArgs[j].confidence < fnArgs[k].confidence

\* three candidates, the last two sharing the highest confidence: the second is used
C12_Witness ==
    /\ fnName = "sort" /\ fnPc = "returned"
    /\ Len(fnArgs) = 3
    /\ fnArgs[1].confidence < fnArgs[2].confidence
    /\ fnArgs[2].confidence = fnArgs[3].confidence
    /\ fnArgs[2].backendNodeId # fnArgs[3].backendNodeId
    /\ fnResult = fnArgs[2]

\* C13: extract() returns null rather than throwing on any failure: an LLM
\* error or invalid JSON, and also a failure of the settle wait, of resolving
\* the area, of reading the element or page text, or of the snapshot.
C13_NeverThrows == extRet # "threw"

\* C14: waitForDOMSettle resolves at the earlier of (a) 500 ms having passed
\* during which the two observed counts were equal and no request arrived,
\* and (b) the timeout: it never resolves through (a) while the counts differ
\* or before such 500 ms have passed, the 500 ms timer is pending only while
\* the counts are equal and no request has arrived since, a completed quiet
\* period resolves it, and it is never still waiting after the timeout.
C14_SettleTiming ==
    /\ resolvedBy = "quiet" =>
          /\ requestCount = responseCount
          /\ quietSince # -1 /\ now - quietSince >= settleQuiet
    /\ (settlePc = "waiting" /\ settleTimer # -1) =>
          /\ requestCount = responseCount
          /\ settleTimer = quietSince + settleQuiet
    /\ (settlePc = "waiting" /\ quietSince # -1) => now - quietSince <= settleQuiet
    /\ settlePc # "idle" => now <= settleTimeout

\* C15: across any number of calls on one navigator without cleanup, also
\* calls that overlap in time, the debugging-protocol session is created
\* exactly once, and every call gets that same session.
C15_OneSession ==
    /\ sessionsCreated <= 1
    /\ \A c \in Callers : initPc[c] = "returned" => initGot[c] = 1

\* C16: after cleanup() the navigator holds no debugging-protocol session and
\* both of its maps, the element mappings and the sequential-id map, are empty.
C16_CleanupClears ==
    [][Cleanup =>
          /\ ~cdp'
          /\ \A b \in BackendIds : elementMappings'[b] = 0
          /\ \A i \in NodeIds : nodeIdToBackendId'[i] = 0]_vars

\* C28: once a waitForDOMSettle call has resolved, by the quiet path or by the
\* timeout, none of the three network listeners it registered remains
\* registered on the session, for every interleaving of network events and
\* the two timers; repeated calls therefore never accumulate listeners.
C28_ListenersRemoved ==
    /\ settlePc \in {"idle", "resolved"} => listeners = {}
    /\ settlePc = "waiting" => listeners = handlersOf(settleCall)

\* the second call has resolved on the quiet path after a request and its
\* response, while the fallback timer of the first call is still set
C28_Witness ==
    /\ settleCall = 2
    /\ settlePc = "resolved" /\ resolvedBy = "quiet"
    /\ requestCount = 1 /\ responseCount = 1
    /\ <<1, "fallback">> \in lateTimers
    /\ listeners = {}

----------------------------------------------------------------------------
(* Properties of filterMeaningfulNodes *)

\* the number of characters from the first to the last non-blank character
C17_TrimmedLength(str) ==
    LET nonBlank == {i \in 1..Len(str) : str[i] # " "}
    IN  IF nonBlank = {} THEN 0
        ELSE (CHOOSE i \in nonBlank : \A j \in nonBlank : j <= i)
             - (CHOOSE i \in nonBlank : \A j \in nonBlank : i <= j) + 1

C17_Interactive(node) ==
    \E i \in 1..Len(node.properties) :
        /\ node.properties[i].value = TRUE
        /\ \/ node.properties[i].name = "focusable"
           \/ node.properties[i].name = "clickable"
           \/ node.properties[i].name = "editable"

\* C17: a node is dropped if its role is one of generic, presentation, none,
\* InlineTextBox, LineBreak, StaticText, even when it is focusable, has text
\* or has children; otherwise it is kept if its role is in the allow-list;
\* otherwise it is kept iff it has a true focusable/clickable/editable
\* property, or its trimmed name or value is longer than 2 characters, or it
\* has at least one child id.
C17_KeepDrop ==
    (fnName = "shouldInclude" /\ fnPc = "returned") =>
        /\ fnArgs.role \in {"generic", "presentation", "none", "InlineTextBox",
                             "LineBreak", "StaticText"} => fnResult = FALSE
        /\ fnArgs.role = "button" => fnResult = TRUE
        /\ fnArgs.role \in {"image", "undefined"} =>
              fnResult = (\/ C17_Interactive(fnArgs)
                          \/ C17_TrimmedLength(fnArgs.name) > 2
                          \/ C17_TrimmedLength(fnArgs.value) > 2
                          \/ Len(fnArgs.childIds) >= 1)

\* a focusable StaticText node with a name and a child is dropped
C17_Witness ==
    /\ fnName = "shouldInclude" /\ fnPc = "returned"
    /\ fnArgs.role = "StaticText"
    /\ C17_Interactive(fnArgs)
    /\ C17_TrimmedLength(fnArgs.name) > 2
    /\ Len(fnArgs.childIds) >= 1
    /\ fnResult = FALSE

C18_Ids(nodes) == {nodes[k].nodeId : k \in 1..Len(nodes)}

\* C18: filtering is idempotent: applying the filter again to the nodes that
\* survived a first filtering removes none of them, for every input.
C18_Idempotent ==
    (fnName = "filterMeaningfulNodes" /\ fnPc = "returned") =>
        LET survivors == flattenNodes(fnResult)
            again == flattenNodes(filterMeaningfulNodes(survivors))
        IN  /\ C18_Ids(again) = C18_Ids(survivors)
            /\ Len(again) = Len(survivors)
            /\ C18_Ids(survivors) \subseteq C18_Ids(fnArgs)

\* a node that only its children keep has lost its one child, a noise node,
\* in the first filtering and still survives
C18_Witness ==
    /\ fnName = "filterMeaningfulNodes" /\ fnPc = "returned"
    /\ Len(fnArgs) = 3
    /\ fnArgs[1].role = "button" /\ fnArgs[1].childIds = <<2>>
    /\ fnArgs[2].role = "image" /\ fnArgs[2].childIds = <<3>>
    /\ fnArgs[3].role = "generic"
    /\ C18_Ids(flattenNodes(fnResult)) = {1, 2}

----------------------------------------------------------------------------
(* Properties of the FoundElements *)

\* C19: a FoundElement's confidence is the confidence the LLM supplied for
\* the element whenever it supplied one, 0 included, and 0.7 only when the
\* LLM omitted it (confidences are in tenths).
C19_ConfidenceAsSupplied ==
    (findResult.status = "returned") =>
        \A k \in 1..Len(findResult.elements) :
            findResult.elements[k].confidence =
                (IF findResult.elements[k].supplied = Omitted
                 THEN 7
                 ELSE findResult.elements[k].supplied)

\* every segment of the path, each of which ends before a "/" or at the end
\* of the path, ends in "]"
C20_AllIndexed(path) ==
    /\ path # <<>>
    /\ \A i \in 1..Len(path) :
          (i = Len(path) \/ path[i + 1] = "/") => path[i] = "]"

\* C20: every segment of every XPath the navigator exposes for an element
\* (FoundElement.xpath and the xpath= selector built from it) carries an
\* explicit 1-based positional index, also for the first sibling of its kind.
C20_ExplicitIndex ==
    (fnName = "xpath" /\ fnPc = "returned") =>
        /\ C20_AllIndexed(fnResult.xpath)
        /\ C20_AllIndexed(SubSeq(fnResult.selector, 7, Len(fnResult.selector)))

----------------------------------------------------------------------------
(* Properties of JobSearchService *)

\* C21: searchJobs returns exactly one result entry per requested board, in
\* the order the boards were given; a board whose search fails for any
\* reason, failed authentication included, contributes an entry with an
\* empty jobs list and does not keep the remaining boards from being searched.
C21_OneEntryPerBoard ==
    svcPc = "returned" =>
        /\ Len(svcResults) = Len(svcBoards)
        /\ \A i \in 1..Len(svcBoards) :
              /\ svcResults[i].board = svcBoards[i]
              /\ i \in svcFailed => svcResults[i].jobs = <<>>

\* the search of the first board failed and the second board was searched
\* and gave jobs
C21_Witness ==
    /\ svcPc = "returned"
    /\ Len(svcBoards) = 2
    /\ 1 \in svcFailed
    /\ svcResults[2].jobs # <<>>

C27_SearchSteps == {"navigateToSearchPage", "performSearch", "extractJobs"}

\* C27: in searchSingleBoard no search or extraction action
\* (navigateToSearchPage, performSearch, extractJobs) is performed on a board
\* unless checkAndHandleAuth for that board has returned true beforehand; when
\* it returns false or throws, the board's search ends without any of them.
C27_AuthBeforeSearch ==
    /\ \A k \in 1..Len(svcCalls) :
          svcCalls[k][1] \in C27_SearchSteps =>
              /\ k > 1
              /\ svcCalls[1] = <<"checkAndHandleAuth", "true">>
    /\ (svcCalls # <<>> /\ svcCalls[1] # <<"checkAndHandleAuth", "true">>) =>
          /\ Len(svcCalls) = 1
          /\ svcPc \in {"loop", "auth", "returned"}
          /\ (svcIdx - 1) \in svcFailed
    /\ svcPc \in {"navigate", "search", "extract"} =>
          (svcCalls # <<>> /\ svcCalls[1] = <<"checkAndHandleAuth", "true">>)

\* the first board's search failed, and the second board was authenticated
\* and then searched to the end
C27_Witness ==
    /\ svcIdx = 3
    /\ 1 \in svcFailed
    /\ Len(svcCalls) = 4
    /\ svcCalls[4][1] = "extractJobs"

----------------------------------------------------------------------------
(* Properties of LinkedInAIStrategy *)

C22_CallNames == [k \in 1..Len(stratCalls) |-> stratCalls[k][1]]

C22_Cleanups == {k \in 1..Len(stratCalls) : C22_CallNames[k] = "cleanup"}

\* C22: search() calls the navigator's cleanup() exactly once on every exit
\* path: after a successful extraction, when authentication is found
\* missing, and when navigation, form filling or extraction throws.
C22_CleanupOnce ==
    /\ stratPc \in {"returned", "threw"} =>
          /\ Cardinality(C22_Cleanups) = 1
          /\ C22_CallNames[Len(stratCalls)] = "cleanup"
    /\ stratPc \notin {"returned", "threw"} => C22_Cleanups = {}

\* search() rejected because authentication was missing, after its cleanup
C22_Witness ==
    /\ stratPc = "threw"
    /\ stratErr = "LinkedIn authentication required"
    /\ stratCalls = <<<<"cleanup", TRUE>>>>

C23_Issued(name) == \E k \in 1..Len(stratCalls) : C22_CallNames[k] = name

C23_Returned(name, result) ==
    \E k \in 1..Len(stratCalls) : stratCalls[k] = <<name, result>>

\* C23: in fillSearchForm with keywords given: if the first combined
\* click-and-type act() returns false, a click-only act() is attempted; only
\* if that returns true is a separate type act() issued; if it returns false
\* the method throws 'Failed to find search field' and neither the 'Press
\* Enter' act() nor the location act() is ever issued. If the first act()
\* returns true, no fallback act() is issued.
C23_Fallback ==
    /\ (C23_Returned("act:click and type", FALSE) /\ stratPc # "click") =>
          /\ Len(stratCalls) >= 2
          /\ stratCalls[1] = <<"act:click and type", FALSE>>
          /\ C22_CallNames[2] = "act:click"
    /\ C23_Issued("act:click") => stratCalls[1] = <<"act:click and type", FALSE>>
    /\ C23_Issued("act:type") => C23_Returned("act:click", TRUE)
    /\ C23_Returned("act:click", FALSE) =>
          /\ stratErr = "Failed to find search field"
          /\ stratPc \in {"finally", "threw"}
          /\ ~C23_Issued("act:type")
          /\ ~C23_Issued("act:press Enter")
          /\ ~C23_Issued("act:location")
    /\ C23_Returned("act:click and type", TRUE) =>
          /\ ~C23_Issued("act:click")
          /\ ~C23_Issued("act:type")

\* both the combined and the click-only act() failed, with a location given,
\* and search() rejected
C23_Witness ==
    /\ stratParams = [keywords |-> TRUE, location |-> TRUE]
    /\ C23_Returned("act:click", FALSE)
    /\ stratPc = "threw"

----------------------------------------------------------------------------
(* Properties of the formatted tree *)

C24_Printed == {fnResult.tree[k].nodeId : k \in 1..Len(fnResult.tree)}

\* C24: whatever node ids the LLM response names, findElements never returns
\* a FoundElement for a node that was filtered out of the formatted tree
\* shown to the LLM: only ids that appear in the formatted tree can resolve.
C24_OnlyPrintedResolve ==
    (fnName = "findElements" /\ fnPc = "returned" /\ fnResult.foundElements # <<>>) =>
        fnResult.named \in C24_Printed

C25_Survivors ==
    {fnArgs[k].nodeId : k \in {j \in 1..Len(fnArgs) : shouldInclude(fnArgs[j])}}

\* the node that lists id among its childIds, 0 if there is none
C25_Parent(id) ==
    IF \E k \in 1..Len(fnArgs) :
           \E c \in 1..Len(fnArgs[k].childIds) : fnArgs[k].childIds[c] = id
    THEN fnArgs[CHOOSE k \in 1..Len(fnArgs) :
             \E c \in 1..Len(fnArgs[k].childIds) :
                 fnArgs[k].childIds[c] = id].nodeId
    ELSE 0

\* C25: for a tree in which every node has at most one parent, the formatted
\* output contains each node that passes the filter exactly once and no node
\* that fails it; a surviving node is printed as a child, one indent level
\* deeper, of its parent when the parent survives, and as a depth-0 root
\* when its parent was filtered out.
C25_PrintedOnceAtDepth ==
    (fnName = "findElements" /\ fnPc \in {"formatted", "returned"}) =>
        LET tree == fnResult.tree IN
        /\ {tree[k].nodeId : k \in 1..Len(tree)} = C25_Survivors
        /\ Len(tree) = Cardinality(C25_Survivors)
        /\ \A k \in 1..Len(tree) :
              LET parent == C25_Parent(tree[k].nodeId) IN
              IF parent \in C25_Survivors
              THEN \E j \in 1..(k - 1) :
                      /\ tree[j].nodeId = parent
                      /\ tree[k].indent = tree[j].indent + 1
                      /\ \A l \in (j + 1)..(k - 1) : tree[l].indent > tree[j].indent
              ELSE tree[k].indent = 0

\* a noise node with a kept child, which has a kept child of its own: the
\* child is printed as a root and the grandchild below it
C25_Witness ==
    /\ fnName = "findElements" /\ fnPc = "formatted"
    /\ Len(fnArgs) = 3
    /\ fnArgs[1].role = "generic" /\ fnArgs[1].childIds = <<2>>
    /\ fnArgs[2].childIds = <<3>>
    /\ Len(fnResult.tree) = 2
    /\ fnResult.tree[1].nodeId = 2 /\ fnResult.tree[1].indent = 0
    /\ fnResult.tree[2].nodeId = 3 /\ fnResult.tree[2].indent = 1

----------------------------------------------------------------------------
(* Properties of the progress event stream *)

\* how many times update n is in a sequence of messages
C29_Count(messages, n) ==
    Cardinality({k \in 1..Len(messages) : messages[k] = progressMessage(n)})

RECURSIVE C29_Received(_, _)
C29_Received(c, n) ==
    IF c = 0 THEN 0 ELSE C29_Count(sseReceived[c], n) + C29_Received(c - 1, n)

\* C29: updates sent while no client is connected are buffered in send order;
\* a client that connects receives 'connected' followed by the buffered
\* updates in that order, after which the buffer is empty; across any
\* interleaving of sends, connects and disconnects every update is
\* delivered to a client exactly once, none lost and none duplicated.
C29_ExactlyOnce ==
    /\ \A n \in 1..sseSent :
          C29_Received(MaxClients, n) + C29_Count(progressUpdates, n) = 1
    /\ \A k \in 1..(Len(progressUpdates) - 1) :
          progressUpdates[k].update < progressUpdates[k + 1].update
    /\ \A c \in Connections :
          sseClients[c] # "unused" => sseReceived[c][1].type = "connected"

----------------------------------------------------------------------------
(* Properties of runJobSearch *)

\* C30: on every return path of runJobSearch (empty keywords, missing
\* LinkedIn session, failed Ollama check, successful search, error during
\* the search), at the moment the call returns the console interception
\* installed by createFileLogger has been undone by restoreConsole: the
\* console methods are the original ones and isIntercepted is false.
C30_RestoredOnReturn ==
    [][\A r \in Runs :
          (runPc[r] # "returned" /\ runPc'[r] = "returned")
              => (~isIntercepted' /\ consoleMethods' = 0)]_vars

====
